---- MODULE Spec2Model ----
(***************************************************************************)
(* Ember: sandboxed execution of chat-embedded JavaScript.                 *)
(*                                                                         *)
(* The repository holds two generations of the same engine:                *)
(*   "main"  src/main.js            frontmatter-tagged fences, libraries   *)
(*                                  requested per unit, no dedup ledger    *)
(*   "p000"  src/unnamed/part_000   every script fence and raw script tag, *)
(*                                  all libraries, dedup ledger, syntax    *)
(*                                  pre-check, height ceiling              *)
(* The variable `variant` fixes which generation is installed in the page. *)
(*                                                                         *)
(* Text is modelled as sequences of character codes.  User code is text    *)
(* over a small alphabet of one-character statements (see RunUserCode).    *)
(***************************************************************************)
EXTENDS Integers, Sequences, FiniteSets, TLC

VARIABLES
    variant,          \* "main" | "p000": the engine generation installed
    now,              \* last value read from Date.now()
    chat,             \* getContext().chat : message id -> [mes: Seq(fragment)]
    dom,              \* message id -> the .mes element of that message
    ctxs,             \* container/iframe id -> Execution Context (the iframe's realm)
    inbox,            \* window 'message' events posted and not yet dispatched (FIFO)
    emberMaxHeights,  \* frameId -> recorded maximum height
    passes,           \* pass slot -> one activation of processMessage
    cpu,              \* 0, or the pass slot that is inside a synchronous section
    timers,           \* message id -> pending handleMessageRender timeouts
    heals,            \* every invocation of attemptSelfHeal, in call order
    nextId,           \* next container/iframe identity
    hist,             \* counters: host events, foreign posts, collaborator calls
    html,             \* the HTML processing module: its input text and what it made of it
    emberSettings     \* the settings the fallbacks of processMessage read

vars == <<variant, now, chat, dom, ctxs, inbox, emberMaxHeights, passes, cpu,
          timers, heals, nextId, hist, html, emberSettings>>

-----------------------------------------------------------------------------
(* Bounds of the model *)

MaxTime   == 2     \* Date.now() takes the values 0..MaxTime
MaxIds    == 3     \* container pairs ever created
MaxInbox  == 2     \* undelivered window messages
MaxHeals  == 2     \* invocations of attemptSelfHeal recorded
MaxRenders == 1    \* render / edit events delivered by the host
MaxForeign == 1    \* messages posted by windows other than the contexts
MaxInjects == 1    \* calls of ember.inject made after the user code has returned

-----------------------------------------------------------------------------
(* Text *)

\* Character codes.  '#' is no token of the script language (a syntax error);
\* the capital letters are the one-character statements of user code.
Ch == [sp |-> 32, quot |-> 34, hash |-> 35, amp |-> 38, apos |-> 39, semi |-> 59,
       lt |-> 60, gt |-> 62,
       A |-> 65,    \* appends a node to root
       B |-> 66,    \* no effect
       I |-> 73,    \* calls ember.inject({content: "..."})
       L |-> 76,    \* schedules a later append to root
       T |-> 84,    \* throws
       K |-> 75,    \* a statement with a keyword (if, for, return, ...), no effect
       D |-> 68,    \* a statement that names document. or window., no effect
       M |-> 77,    \* a call of .map, .push, console.log, ..., no effect
       W |-> 87,    \* an arrow function, no effect
       O |-> 79,    \* an expression with ===, &&, ||, ?., ..., no effect
       X |-> 88,    \* a regular expression literal, no effect
       P |-> 80,    \* a template literal with an interpolation, no effect
       lbrace |-> 123]

Max(a, b) == IF a >= b THEN a ELSE b
Min(a, b) == IF a <= b THEN a ELSE b
Abs(x)    == IF x < 0 THEN -x ELSE x

IsWhite(c) == c \in {9, 10, 11, 12, 13, Ch.sp}

RECURSIVE TrimLeft(_)
TrimLeft(s) == IF s # <<>> /\ IsWhite(Head(s)) THEN TrimLeft(Tail(s)) ELSE s

RECURSIVE TrimRight(_)
TrimRight(s) ==
    IF s # <<>> /\ IsWhite(s[Len(s)]) THEN TrimRight(SubSeq(s, 1, Len(s) - 1)) ELSE s

\* String.prototype.trim
Trim(s) == TrimRight(TrimLeft(s))

StartsWith(s, p) == Len(p) <= Len(s) /\ SubSeq(s, 1, Len(p)) = p

\* String.prototype.includes
Includes(s, p) == \E i \in 1..(Len(s) - Len(p) + 1) : SubSeq(s, i, i + Len(p) - 1) = p

\* ASCII lower case of a character
Lower(c) == IF c >= 65 /\ c <= 90 THEN c + 32 ELSE c
IsLetter(c) == c \in 65..90 \/ c \in 97..122
\* \w of a regular expression
IsWordChar(c) == IsLetter(c) \/ c \in 48..57 \/ c = 95
LowerAll(t) == [i \in 1..Len(t) |-> Lower(t[i])]
closeScript == <<60, 47, 115, 99, 114, 105, 112, 116, 62>>          \* "</script>"
openScript == <<60, 115, 99, 114, 105, 112, 116>>                     \* "<script"

\* codeContent.match(/<script\b[^>]*>([\s\S]*?)<\/script>/gi): what the capture group
\* holds in each match from position i on, left to right
RECURSIVE ScriptMatchesFrom(_, _)
ScriptMatchesFrom(t, i) ==
    IF i + 6 > Len(t) THEN <<>>
    ELSE LET opens == /\ LowerAll(SubSeq(t, i, i + 6)) = openScript
                      /\ i + 7 <= Len(t) => ~IsWordChar(t[i + 7])
             gts == {j \in (i + 7)..Len(t) : t[j] = 62}
             j == CHOOSE x \in gts : \A y \in gts : x <= y
             cls == {k \in (j + 1)..(Len(t) - 8) : LowerAll(SubSeq(t, k, k + 8)) = closeScript}
             k == CHOOSE x \in cls : \A y \in cls : x <= y
         IN  IF ~opens \/ gts = {} THEN ScriptMatchesFrom(t, i + 1)
             ELSE IF cls = {} THEN ScriptMatchesFrom(t, i + 1)
             ELSE <<SubSeq(t, j + 1, k - 1)>> \o ScriptMatchesFrom(t, k + 9)
ScriptMatches(t) == ScriptMatchesFrom(t, 1)

\* /<script\b[^>]*>[\s\S]*?<\/script>/i.test(codeContent)
hasScriptTags(codeContent) == ScriptMatches(codeContent) # <<>>

\* String.prototype.replace(/p/g, r) for a literal pattern p
RECURSIVE ReplaceAll(_, _, _)
ReplaceAll(s, p, r) ==
    IF s = <<>> THEN <<>>
    ELSE IF StartsWith(s, p) THEN r \o ReplaceAll(SubSeq(s, Len(p) + 1, Len(s)), p, r)
    ELSE <<Head(s)>> \o ReplaceAll(Tail(s), p, r)

\* A 32-bit word as its two 16-bit halves <<hi, lo>> (TLC's integers are
\* 32-bit themselves, so the word arithmetic of simpleHash is done on halves).
Half == 65536

\* hash = ((hash << 5) - hash) + char; hash = hash & hash   (= 31 * hash + char mod 2^32)
HashStep(w, char) ==
    LET lo == w[2] * 31 + char
        hi == w[1] * 31 + (lo \div Half)
    IN  <<hi % Half, lo % Half>>

RECURSIVE HashFrom(_, _)
HashFrom(w, s) == IF s = <<>> THEN w ELSE HashFrom(HashStep(w, Head(s)), Tail(s))

\* Math.abs of the word read as a signed 32-bit integer, again as halves
AbsWord(w) ==
    IF w[1] < Half \div 2 THEN w
    ELSE IF w[2] = 0 THEN <<Half - w[1], 0>>
    ELSE <<Half - 1 - w[1], Half - w[2]>>

\* simpleHash(str)
simpleHash(str) == AbsWord(HashFrom(<<0, 0>>, str))

\* simpleHash(x).toString().substring(0, 10): |hash| <= 2^31 has at most 10 decimal
\* digits, so the substring keeps every digit and the ledger key is the hash itself
HashKey(str) == simpleHash(str)

-----------------------------------------------------------------------------
(* Messages, fragments and the trusted registry *)

Msgs == {1, 10}

\* BUILT_IN_LIBRARIES
BUILT_IN_LIBRARIES ==
    << [alias |-> "d3",      file |-> "d3.v7.min.js"],
       [alias |-> "three",   file |-> "three.r128.min.js"],
       [alias |-> "p5",      file |-> "p5.v1.4.0.min.js"],
       [alias |-> "anime",   file |-> "anime.v3.2.1.min.js"],
       [alias |-> "chartjs", file |-> "chart.umd.js"],
       [alias |-> "matter",  file |-> "matter.v0.18.0.min.js"] >>

\* BUILT_IN_LIBRARIES.find(lib => lib.alias === alias): <<libDef>> or <<>> (undefined)
FindLib(alias) ==
    LET hits == {i \in 1..Len(BUILT_IN_LIBRARIES) : BUILT_IN_LIBRARIES[i].alias = alias}
    IN  IF hits = {} THEN <<>>
        ELSE <<BUILT_IN_LIBRARIES[CHOOSE i \in hits : \A j \in hits : i <= j]>>

\* A resolver that gives up at the first alias it does not know
RECURSIVE LibUrlsUntilUnknown(_)
LibUrlsUntilUnknown(requestedLibs) ==
    IF requestedLibs = <<>> \/ FindLib(Head(requestedLibs)) = <<>> THEN <<>>
    ELSE <<FindLib(Head(requestedLibs))[1].file>> \o LibUrlsUntilUnknown(Tail(requestedLibs))

\* requestedLibs.map(find).filter(Boolean).map(libDef => url of libDef.file)
RECURSIVE LibUrls(_)
LibUrls(requestedLibs) ==
    IF requestedLibs = <<>> THEN <<>>
    ELSE LET found == FindLib(Head(requestedLibs))
         IN  (IF found = <<>> THEN <<>> ELSE <<found[1].file>>) \o LibUrls(Tail(requestedLibs))

\* const requestedLibs = ['d3', 'three', 'p5', 'anime', 'chartjs', 'matter']
AllLibs == <<"d3", "three", "p5", "anime", "chartjs", "matter">>

\* Language tags and class names, as text
tagJavascript == <<106, 97, 118, 97, 115, 99, 114, 105, 112, 116>>   \* "javascript"
tagCss        == <<99, 115, 115>>                                    \* "css"
tagHtml       == <<104, 116, 109, 108>>                              \* "html"
tagXml        == <<120, 109, 108>>                                   \* "xml"
tagJs         == <<106, 115>>                                        \* "js"
tagLangJs     == <<108, 97, 110, 103, 45, 106, 115>>                 \* "lang-js"
clsLanguage   == <<108, 97, 110, 103, 117, 97, 103, 101, 45>>        \* "language-"
clsLang       == <<108, 97, 110, 103, 45>>                           \* "lang-"

\* The src attribute of an element: absent, or present with a value that may be empty
NoSrc == [has |-> FALSE, val |-> <<>>]
Src(v) == [has |-> TRUE, val |-> v]

\* A fragment of a message's raw source: a fenced code block, or a raw script tag.
\* hasFm/libs: the frontmatter block at the top of a fence and the aliases it lists.
Fence(lang, hasFm, libs, code) ==
    [kind |-> "fence", lang |-> lang, hasFm |-> hasFm, libs |-> libs, code |-> code,
     src |-> NoSrc]
Script(src, code) ==
    [kind |-> "script", lang |-> <<>>, hasFm |-> FALSE, libs |-> <<>>, code |-> code,
     src |-> src]
NoFrag == [kind |-> "none", lang |-> <<>>, hasFm |-> FALSE, libs |-> <<>>, code |-> <<>>,
           src |-> NoSrc]

\* Raw markup of a message outside fences and script tags, as text
Markup(text) ==
    [kind |-> "markup", lang |-> <<>>, hasFm |-> FALSE, libs |-> <<>>, code |-> text,
     src |-> NoSrc]

NoMsg == [exists |-> FALSE, mes |-> <<>>, is_user |-> FALSE]
Msg(mes) == [exists |-> TRUE, mes |-> mes, is_user |-> FALSE]
UserMsg(mes) == [exists |-> TRUE, mes |-> mes, is_user |-> TRUE]

-----------------------------------------------------------------------------
(* The document *)

NoFrame == [m |-> 0, kind |-> "", t |-> 0]
\* `ember-frame-${messageId}-${Date.now()}`, `ember-frame-${messageId}-script-${Date.now()}`,
\* `ember-frame-${messageId}-codeblock-${Date.now()}`
FrameId(m, kind, t) == [m |-> m, kind |-> kind, t |-> t]

\* Nodes of a message's .mes_text, in document order.
\*   pre     : a rendered fence; id = index of its fragment; marker = data-ember-processed
\*   loading : .ember-loading-container      final : .ember-container
PreNode(u, frag) ==
    [type |-> "pre", id |-> u, frag |-> frag, marker |-> "", display |-> "",
     frameId |-> NoFrame, content |-> "", color |-> "", height |-> 0, iframe |-> FALSE]
LoadingNode(id, frameId) ==
    [type |-> "loading", id |-> id, frag |-> NoFrag, marker |-> "", display |-> "",
     frameId |-> frameId, content |-> "spinner", color |-> "", height |-> 0, iframe |-> FALSE]
FinalNode(id, frameId) ==
    [type |-> "final", id |-> id, frag |-> NoFrag, marker |-> "", display |-> "none",
     frameId |-> frameId, content |-> "", color |-> "", height |-> 0, iframe |-> FALSE]

\*   element : an element of the message's own markup; marker = the clickable attribute
\*   generic : .ember-generic-html-iframe (with the spinner shown until it has loaded)
ElementNode(u, frag) ==
    [type |-> "element", id |-> u, frag |-> frag, marker |-> "", display |-> "",
     frameId |-> NoFrame, content |-> "", color |-> "", height |-> 0, iframe |-> FALSE]
GenericNode ==
    [type |-> "generic", id |-> 0, frag |-> NoFrag, marker |-> "", display |-> "block",
     frameId |-> NoFrame, content |-> "spinner", color |-> "", height |-> 0, iframe |-> TRUE]

\* messageFormatting(msg.mes, ...): every fence becomes a pre > code and the message's
\* own markup becomes elements; raw script tags are not part of the rendered markup
RECURSIVE RenderFrom(_, _)
RenderFrom(mes, i) ==
    IF i > Len(mes) THEN <<>>
    ELSE (IF mes[i].kind = "fence" THEN <<PreNode(i, mes[i])>>
          ELSE IF mes[i].kind = "markup" THEN <<ElementNode(i, mes[i])>>
          ELSE <<>>)
         \o RenderFrom(mes, i + 1)
messageFormatting(mes) == RenderFrom(mes, 1)

\* codeBlock.className
ClassName(frag) == clsLanguage \o frag.lang

Positions(nodes, P(_)) == {i \in 1..Len(nodes) : P(nodes[i])}
First(S) == CHOOSE i \in S : \A j \in S : i <= j

\* document.querySelector(`.ember-loading-container[data-frame-id="${frameId}"]`) and
\* the same for .ember-container: position <<m, i>> of the first match in document
\* order, or <<>>.  Messages are laid out in the order of their ids.
QueryContainer(d, type, frameId) ==
    LET hit(m) == Positions(d[m].nodes, LAMBDA n : n.type = type /\ n.frameId = frameId)
        ms == {m \in Msgs : d[m].present /\ hit(m) # {}}
    IN  IF ms = {} THEN <<>>
        ELSE LET m == First(ms) IN <<m, First(hit(m))>>

InsertAt(seq, i, xs) == SubSeq(seq, 1, i) \o xs \o SubSeq(seq, i + 1, Len(seq))
RemoveAt(seq, i) == SubSeq(seq, 1, i - 1) \o SubSeq(seq, i + 1, Len(seq))

\* Ids of the .ember-iframe elements in a message's text element
IframesIn(nodes) == {nodes[i].id : i \in Positions(nodes, LAMBDA n : n.type = "final" /\ n.iframe)}

-----------------------------------------------------------------------------
(* Pure helpers of the Message Processor *)

entLt   == <<38, 108, 116, 59>>                \* "&lt;"
entGt   == <<38, 103, 116, 59>>                \* "&gt;"
entAmp  == <<38, 97, 109, 112, 59>>            \* "&amp;"
entQuot == <<38, 113, 117, 111, 116, 59>>      \* "&quot;"
entX27  == <<38, 35, 120, 50, 55, 59>>         \* "&#x27;"
ent39   == <<38, 35, 51, 57, 59>>              \* "&#39;"
entNbsp == <<38, 110, 98, 115, 112, 59>>       \* "&nbsp;"

\* codeContent.replace(/&lt;/g,'<').replace(/&gt;/g,'>').replace(/&amp;/g,'&')
\*            .replace(/&quot;/g,'"').replace(/&#x27;/g,"'").replace(/&#39;/g,"'")
\*            .replace(/&nbsp;/g,' ')
DecodeEntities(s) ==
    ReplaceAll(ReplaceAll(ReplaceAll(ReplaceAll(ReplaceAll(ReplaceAll(ReplaceAll(
        s, entLt, <<Ch.lt>>), entGt, <<Ch.gt>>), entAmp, <<Ch.amp>>),
        entQuot, <<Ch.quot>>), entX27, <<Ch.apos>>), ent39, <<Ch.apos>>),
        entNbsp, <<Ch.sp>>)

Count(s, c) == Cardinality({i \in 1..Len(s) : s[i] = c})

\* The text read left to right: a quote opens a string literal that the same quote
\* closes; outside a literal '#' is no token of the script language
RECURSIVE ScanOK(_, _)
ScanOK(code, open) ==
    IF code = <<>> THEN open = 0
    ELSE LET c == Head(code) IN
         IF open = 0
         THEN c # Ch.hash /\ ScanOK(Tail(code), IF c \in {Ch.quot, Ch.apos} THEN c ELSE 0)
         ELSE ScanOK(Tail(code), IF c = open THEN 0 ELSE open)

\* new Function(code) does not throw: the text holds no character outside the script
\* language and every string literal is closed
SyntaxOK(code) == ScanOK(code, 0)

\* A pre-check that lets every text through
PreCheckSkipped(code) == FALSE

\* try { new Function(code) } catch (syntaxError) { console.error(...); continue; }
\* enters its catch block
PreCheckRejects(code) == ~SyntaxOK(code)

\* const isDirectJavaScript = className.includes('javascript') ||
\*                            className.includes('lang-js') || className.includes('js')
isDirectJavaScript(className) ==
    Includes(className, tagJavascript) \/ Includes(className, tagLangJs)
        \/ Includes(className, tagJs)

\* [hasJSKeywords, hasDOMManipulation, hasJSMethods, hasArrowFunctions, hasJSOperators,
\*  hasRegexLiterals, hasTemplateLiterals].filter(Boolean).length
contentBasedScore(codeContent) ==
    Cardinality({c \in {Ch.K, Ch.D, Ch.M, Ch.W, Ch.O, Ch.X, Ch.P} : Count(codeContent, c) > 0})

\* /^\s*<[a-zA-Z]/.test(codeContent)
StartsWithTag(codeContent) ==
    LET t == TrimLeft(codeContent)
    IN  Len(t) >= 2 /\ t[1] = Ch.lt /\ (t[2] \in 65..90 \/ t[2] \in 97..122)

\* /^\s*[a-zA-Z#.][^{]*\{/.test(codeContent)
StartsWithCssRule(codeContent) ==
    LET t == TrimLeft(codeContent)
    IN  /\ t # <<>>
        /\ t[1] \in 65..90 \/ t[1] \in 97..122 \/ t[1] = Ch.hash \/ t[1] = 46
        /\ \E i \in 2..Len(t) : t[i] = Ch.lbrace

\* const isContentBasedJavaScript = !className.includes('html') && ... &&
\*   contentBasedScore >= 2 && !/^\s*<[a-zA-Z]/.test(...) && !/^\s*[a-zA-Z#.][^{]*\{/.test(...)
isContentBasedJavaScript(className, codeContent) ==
    /\ ~Includes(className, tagHtml) /\ ~Includes(className, tagXml)
    /\ ~Includes(className, tagCss)
    /\ ~isDirectJavaScript(className)
    /\ contentBasedScore(codeContent) >= 2
    /\ ~StartsWithTag(codeContent)
    /\ ~StartsWithCssRule(codeContent)

\* const isHtmlWithJavaScript = (className.includes('html') || className.includes('xml'))
\*     && (hasScriptTags || hasES6Imports || hasJSInHTML), for a text without import
\* statements and without const, let, var, function, addEventListener, document.
isHtmlWithJavaScript(className, codeContent) ==
    /\ Includes(className, tagHtml) \/ Includes(className, tagXml)
    /\ hasScriptTags(codeContent)

\* detectJavaScriptContent(className, codeContent).isJavaScript
detectJavaScriptContent(className, codeContent) ==
    \/ isDirectJavaScript(className)
    \/ isHtmlWithJavaScript(className, codeContent)
    \/ isContentBasedJavaScript(className, codeContent)

\* array.join(sep)
RECURSIVE JoinWith(_, _)
JoinWith(parts, sep) ==
    IF parts = <<>> THEN <<>>
    ELSE IF Len(parts) = 1 THEN parts[1]
    ELSE parts[1] \o sep \o JoinWith(Tail(parts), sep)

\* Only the first script tag is taken
FirstScriptOnly(codeContent) ==
    Trim(DecodeEntities(ScriptMatches(codeContent)[1]))
\* extractJavaScriptFromHTML(codeContent, jsDetection) when jsDetection.hasScriptTags:
\* scriptMatches.map(decoded, trimmed content).filter(content.length > 0).join('\n\n')
extractJavaScriptFromHTML(codeContent) ==
    LET ms == ScriptMatches(codeContent)
        contents == [k \in 1..Len(ms) |-> Trim(DecodeEntities(ms[k]))]
    IN  JoinWith(SelectSeq(contents, LAMBDA c : c # <<>>), <<10, 10>>)

\* pre > code[class*="language-javascript"], pre > code[class*="lang-javascript"]
MatchesMainSelector(className) ==
    Includes(className, clsLanguage \o tagJavascript)
        \/ Includes(className, clsLang \o tagJavascript)

-----------------------------------------------------------------------------
(* Execution Contexts: the realm of one sandboxed iframe *)

\* The effect of new Function('root', userCodeToRun)(rootElement): the statements run
\* left to right until one throws.
RECURSIVE RunUserCode(_, _)
RunUserCode(code, acc) ==
    IF code = <<>> THEN acc
    ELSE LET c == Head(code) IN
         IF c = Ch.T THEN [acc EXCEPT !.threw = TRUE]
         ELSE RunUserCode(Tail(code),
                IF c = Ch.A THEN [acc EXCEPT !.appended = TRUE]
                ELSE IF c = Ch.L THEN [acc EXCEPT !.late = TRUE]
                ELSE IF c = Ch.I THEN [acc EXCEPT !.injects = @ + 1]
                ELSE acc)
NoEffect == [appended |-> FALSE, late |-> FALSE, injects |-> 0, threw |-> FALSE]
Effect(code) == RunUserCode(code, NoEffect)

\* createSandboxedFrame(code, libraryCodes, frameId), appended to a container in the
\* document: the iframe is loading its blob document; nothing has run yet.
\*   o  : the completion flag `let o=!1`        d  : the 7000 ms warning timer
\*   n  : the 50 ms setTimeout(n, 50)           fb : the 1000 ms setTimeout(s, 1000)
\*   late : a node insertion scheduled by user code for later
\*   execErrors, successes, warnings : messages posted
\*   libErrors : library scripts that threw
createSandboxedFrame(code, libraryCodes, frameId, src, pass) ==
    [alive |-> TRUE, phase |-> "loading", frameId |-> frameId, code |-> code,
     libs |-> libraryCodes, o |-> FALSE, d |-> FALSE, n |-> FALSE, fb |-> FALSE,
     late |-> FALSE, hasChild |-> FALSE, src |-> src, pass |-> pass,
     execErrors |-> 0, successes |-> 0, warnings |-> 0, autoHeals |-> 0, libErrors |-> 0,
     order |-> <<>>]

\* The realm of an iframe that left the document: its timers and observers are gone
Unloaded(cx) ==
    [cx EXCEPT !.alive = FALSE, !.phase = "unloaded", !.o = FALSE, !.d = FALSE, !.n = FALSE,
               !.fb = FALSE, !.late = FALSE, !.hasChild = FALSE]

-----------------------------------------------------------------------------
(* processMessage: one activation ("pass") *)

MaxPasses == 2
PassIds == 1..MaxPasses

\*   scripts/sidx : the script elements of the parsed raw source and the loop position
\*   units/idx    : the NodeList of code blocks (ids of their pre) and the loop position
\*   ledger       : processedScriptHashes
\*   cur, frameId, code, urls : the unit whose libraries are being fetched
\*   micro        : the pending await resolves in a microtask (nothing was fetched)
\*   detached/own : the pass's elements were replaced by a re-render; own is what it holds
\*   created, early, fallback : history
\*   failed       : the units whose awaited Promise.all rejected
\*   rejected     : the units whose syntax error was written to the console
\*   generic, clickable, runButton : the pass called renderGenericHtmlInFrame,
\*                  processClickableInputs, addGenericHtmlRunButton
\*   complex      : genericHtmlShouldBeHandled when the pass returned
IdlePass ==
    [pc |-> "idle", m |-> 0, scripts |-> <<>>, sidx |-> 0, units |-> <<>>, idx |-> 0,
     ledger |-> {}, processedByEmberJs |-> FALSE, processedAnyScripts |-> FALSE,
     cur |-> 0, frameId |-> NoFrame, code |-> <<>>, urls |-> <<>>, micro |-> FALSE,
     detached |-> FALSE, own |-> <<>>, created |-> {}, early |-> FALSE,
     fallback |-> FALSE, failed |-> {}, rejected |-> {}, generic |-> FALSE,
     clickable |-> FALSE, runButton |-> FALSE, complex |-> FALSE]

Free(p) == passes[p].pc \in {"idle", "done"}

\* A pass that has returned: its locals are gone, what it did is kept
Returned(ps, early, fallback) ==
    [IdlePass EXCEPT !.pc = "done", !.m = ps.m, !.created = ps.created, !.early = early,
                     !.fallback = fallback, !.failed = ps.failed,
                     !.rejected = ps.rejected]

PassNodes(p) == IF passes[p].detached THEN passes[p].own ELSE dom[passes[p].m].nodes
PosPre(nodes, u) == First(Positions(nodes, LAMBDA n : n.type = "pre" /\ n.id = u))

\* The ids of the pre elements a selector matches, in document order
PreIds(nodes, Match(_)) ==
    LET sel == SelectSeq(nodes, LAMBDA n : n.type = "pre" /\ Match(n))
    IN  [i \in 1..Len(sel) |-> sel[i].id]

\* Writes the pass record and the node list it works on
Commit(p, np, nn) ==
    /\ passes' = [passes EXCEPT ![p] = IF np.detached THEN [np EXCEPT !.own = nn] ELSE np]
    /\ dom' = IF np.detached THEN dom ELSE [dom EXCEPT ![np.m].nodes = nn]

\* A ledger that records nothing
NeverSeen(ledger, key) == FALSE
\* processedScriptHashes.has(hash)
IsDuplicate(ledger, key) == key \in ledger

\* A processor that never finds its own output
NothingRendered(d) == FALSE
\* messageTextElement.querySelector('.ember-iframe, .ember-generic-html-iframe,
\* .edit_textarea')
AlreadyRendered(d) ==
    d.edit \/ IframesIn(d.nodes) # {} \/ Positions(d.nodes, LAMBDA n : n.type = "generic") # {}

\* The script elements DOMParser finds in the raw source: the raw script tags and the
\* script tags written inside a fence, in the order of the text
RECURSIVE RawScripts(_)
RawScripts(mes) ==
    IF mes = <<>> THEN <<>>
    ELSE LET f == Head(mes)
             inside == ScriptMatches(f.code)
         IN  (IF f.kind = "script" THEN <<f>>
              ELSE IF f.kind = "fence"
              THEN [k \in 1..Len(inside) |-> Script(NoSrc, inside[k])]
              ELSE <<>>)
             \o RawScripts(Tail(mes))

\* A code block of markup that holds script tags and still shows
LeftShown(n) == n
\* parentPre.style.display = 'none';
\* parentPre.dataset.emberProcessed = 'hidden-after-script-processing'
HidePre(n) == [n EXCEPT !.display = "none", !.marker = "hidden-after-script-processing"]

\* for (const codeBlock of codeBlocks) if (className.includes('html') || ...('xml'))
\*     if (/<script\b[^>]*>[\s\S]*?<\/script>/i.test(codeContent)) hide its pre
HideAfterScripts(nodes) ==
    [i \in 1..Len(nodes) |->
        IF /\ nodes[i].type = "pre"
           /\ Includes(ClassName(nodes[i].frag), tagHtml)
                 \/ Includes(ClassName(nodes[i].frag), tagXml)
           /\ hasScriptTags(Trim(nodes[i].frag.code))
        THEN HidePre(nodes[i]) ELSE nodes[i]]

\* processMessage, from its call to the first loop
processMessage_begin(p, m) ==
    LET d == dom[m]
        fresh == [IdlePass EXCEPT !.m = m]
    IN  IF ~d.present \/ AlreadyRendered(d)
        THEN /\ passes' = [passes EXCEPT ![p] = Returned(fresh, TRUE, FALSE)]
             /\ cpu' = 0
        ELSE /\ cpu' = p
             /\ passes' = [passes EXCEPT ![p] =
                  IF variant = "main"
                  THEN [fresh EXCEPT !.pc = "loop", !.idx = 1,
                          !.units = PreIds(d.nodes, LAMBDA n : MatchesMainSelector(ClassName(n.frag)))]
                  ELSE [fresh EXCEPT !.pc = "scripts", !.sidx = 1,
                          !.scripts = RawScripts(chat[m].mes)]]

\* setTimeout(() => { if (getContext().chat[id]) processMessage(id, isUser) }, 50)
handleMessageRender_timeout(p, m) ==
    /\ cpu = 0
    /\ timers[m] > 0
    /\ Free(p) /\ \A q \in PassIds : Free(q) => p <= q
    /\ timers' = [timers EXCEPT ![m] = @ - 1]
    /\ IF chat[m].exists THEN processMessage_begin(p, m) ELSE UNCHANGED <<passes, cpu>>
    /\ UNCHANGED <<emberSettings, html, variant, now, chat, dom, ctxs, inbox, emberMaxHeights, heals, nextId, hist>>

\* A test of the attribute's presence
HasSrcAttribute(script) == script.src.has
\* const scriptSrc = script.getAttribute('src'); ... if (scriptSrc) continue;
\* null and the empty string are falsy
SkipsScript(script) == script.src.has /\ script.src.val # <<>>

\* processScriptTagsInHTML: one turn of `for (const script of scripts)`, or its return
\* and the lines of processMessage up to the code-block loop
processScriptTagsInHTML_step(p) ==
    LET ps == passes[p]
        m == ps.m
    IN
    /\ cpu = p /\ ps.pc = "scripts"
    /\ IF ps.sidx > Len(ps.scripts)
       THEN \* return processedAnyScripts; then const codeBlocks = querySelectorAll(`pre > code`)
            \* if it returned true, the markup code blocks that hold script tags are hidden
            /\ Commit(p, [ps EXCEPT !.pc = "loop", !.idx = 1,
                            !.processedByEmberJs = ps.processedAnyScripts,
                            !.units = PreIds(PassNodes(p), LAMBDA n : TRUE)],
                      IF ps.processedAnyScripts THEN HideAfterScripts(PassNodes(p))
                      ELSE PassNodes(p))
            /\ UNCHANGED <<cpu, now>>
       ELSE /\ UNCHANGED dom
            /\ LET script == ps.scripts[ps.sidx]
                     scriptContent == Trim(script.code)
                     scriptHash == HashKey(scriptContent)
                     next == [ps EXCEPT !.sidx = @ + 1]
                 IN  IF IsDuplicate(ps.ledger, scriptHash)
                     THEN passes' = [passes EXCEPT ![p] = next] /\ UNCHANGED <<cpu, now>>
                     ELSE IF SkipsScript(script) \/ scriptContent = <<>>
                     THEN passes' = [passes EXCEPT ![p] = next] /\ UNCHANGED <<cpu, now>>
                     ELSE IF PreCheckRejects(scriptContent)
                     THEN /\ passes' = [passes EXCEPT ![p] =
                               [next EXCEPT !.ledger = @ \cup {scriptHash},
                                            !.rejected = @ \cup {<<"script", ps.sidx>>}]]
                          /\ UNCHANGED <<cpu, now>>
                     ELSE \E t \in now..MaxTime :
                          /\ now' = t
                          /\ cpu' = 0
                          /\ passes' = [passes EXCEPT ![p] =
                               [ps EXCEPT !.pc = "scriptFetch", !.ledger = @ \cup {scriptHash},
                                  !.frameId = FrameId(m, "script", t), !.code = scriptContent,
                                  !.urls = LibUrls(AllLibs)]]
    /\ UNCHANGED <<emberSettings, html, variant, chat, ctxs, inbox, emberMaxHeights, timers, heals, nextId, hist>>

\* processScriptTagsInHTML after `await Promise.all(libUrls.map(fetch...))`
processScriptTagsInHTML_fetched(p, ok) ==
    LET ps == passes[p]
        m == ps.m
        id == nextId
    IN
    /\ cpu = 0 /\ ps.pc = "scriptFetch"
    /\ cpu' = p
    /\ IF ok
       THEN \* an iframe appended to an element outside the document loads nothing
            /\ id <= MaxIds
            /\ Commit(p, [ps EXCEPT !.pc = "scripts", !.sidx = @ + 1,
                             !.processedAnyScripts = TRUE,
                             !.created = IF ps.detached THEN @ ELSE @ \cup {id}],
                      PassNodes(p) \o
                        <<LoadingNode(id, ps.frameId),
                          [FinalNode(id, ps.frameId) EXCEPT !.iframe = TRUE]>>)
            /\ ctxs' = IF ps.detached THEN ctxs
                       ELSE (id :> createSandboxedFrame(ps.code, ps.urls, ps.frameId,
                                                        <<"script", ps.sidx>>, p)) @@ ctxs
            /\ nextId' = id + 1
       ELSE /\ Commit(p, [ps EXCEPT !.pc = "scripts", !.sidx = @ + 1,
                             !.failed = @ \cup {<<"script", ps.sidx>>}],
                      PassNodes(p) \o
                        <<[LoadingNode(0, NoFrame) EXCEPT !.content = "setup-error",
                                                          !.color = "error"]>>)
            /\ UNCHANGED <<ctxs, nextId>>
    /\ UNCHANGED <<emberSettings, html, variant, now, chat, inbox, emberMaxHeights, timers, heals, hist>>

-----------------------------------------------------------------------------
(* processMessage after the code-block loop: raw-HTML rendering and clickable inputs *)


\* div|table|form|canvas|svg|section|article|header|footer|nav|aside|dl|dt|dd|figure|
\* figcaption|summary|dialog|menu|input|select|button|textarea
ComplexTagNames ==
    {<<100, 105, 118>>,
     <<116, 97, 98, 108, 101>>,
     <<102, 111, 114, 109>>,
     <<99, 97, 110, 118, 97, 115>>,
     <<115, 118, 103>>,
     <<115, 101, 99, 116, 105, 111, 110>>,
     <<97, 114, 116, 105, 99, 108, 101>>,
     <<104, 101, 97, 100, 101, 114>>,
     <<102, 111, 111, 116, 101, 114>>,
     <<110, 97, 118>>,
     <<97, 115, 105, 100, 101>>,
     <<100, 108>>,
     <<100, 116>>,
     <<100, 100>>,
     <<102, 105, 103, 117, 114, 101>>,
     <<102, 105, 103, 99, 97, 112, 116, 105, 111, 110>>,
     <<115, 117, 109, 109, 97, 114, 121>>,
     <<100, 105, 97, 108, 111, 103>>,
     <<109, 101, 110, 117>>,
     <<105, 110, 112, 117, 116>>,
     <<115, 101, 108, 101, 99, 116>>,
     <<98, 117, 116, 116, 111, 110>>,
     <<116, 101, 120, 116, 97, 114, 101, 97>>}


\* /<\s*(div|...|textarea)\b/i matches at position i of the text
ComplexTagAt(t, i) ==
    /\ t[i] = Ch.lt
    /\ \E j \in (i + 1)..Len(t) :
          /\ \A k \in (i + 1)..(j - 1) : IsWhite(t[k])
          /\ \E name \in ComplexTagNames :
                /\ j + Len(name) - 1 <= Len(t)
                /\ LowerAll(SubSeq(t, j, j + Len(name) - 1)) = name
                /\ j + Len(name) <= Len(t) => ~IsWordChar(t[j + Len(name)])

styleEq == <<115, 116, 121, 108, 101, 61>>      \* style=

\* /<[a-z]+\s+[^>]*style=["']/i matches at position i of the text
StyledTagAt(t, i) ==
    /\ t[i] = Ch.lt
    /\ \E j \in (i + 2)..Len(t) : \E k \in j..Len(t) :
          /\ \A l \in (i + 1)..(j - 1) : IsLetter(t[l])
          /\ IsWhite(t[j])
          /\ \A l \in (j + 1)..(k - 1) : t[l] # 62
          /\ k + Len(styleEq) <= Len(t)
          /\ LowerAll(SubSeq(t, k, k + Len(styleEq) - 1)) = styleEq
          /\ t[k + Len(styleEq)] \in {Ch.quot, Ch.apos}

\* complexHtmlRegex.test(htmlForProcessing)
complexHtmlRegex(t) == \E i \in 1..Len(t) : ComplexTagAt(t, i) \/ StyledTagAt(t, i)

\* getContext().chat[messageId]?.mes as one text
RECURSIVE RawText(_)
RawText(mes) == IF mes = <<>> THEN <<>> ELSE Head(mes).code \o RawText(Tail(mes))

\* The name of the element a piece of markup opens, in lower case
RECURSIVE LettersOf(_)
LettersOf(t) == IF t # <<>> /\ IsWordChar(Head(t)) THEN <<Lower(Head(t))>> \o LettersOf(Tail(t))
                ELSE <<>>
ElementName(frag) ==
    IF frag.code # <<>> /\ Head(frag.code) = Ch.lt THEN LettersOf(Tail(frag.code)) ELSE <<>>

\* makeElementInteractive: a button, input, select or textarea gets a listener and the
\* clickable attribute; an element that has the attribute is left alone
makeElementInteractive(n) ==
    IF n.type = "element" /\ n.marker = ""
          /\ ElementName(n.frag) \in {<<98, 117, 116, 116, 111, 110>>, <<105, 110, 112, 117, 116>>,
                                     <<115, 101, 108, 101, 99, 116>>, <<116, 101, 120, 116, 97, 114, 101, 97>>}
    THEN [n EXCEPT !.marker = "clickable"] ELSE n

\* processClickableInputs(messageTextElement): every button, input, select and textarea
\* of the message text that is not inside a container or an iframe
processClickableInputs(nodes) ==
    IF ~emberSettings.clickableInputsEnabled THEN nodes
    ELSE [i \in 1..Len(nodes) |-> makeElementInteractive(nodes[i])]

\* renderGenericHtmlInFrame(targetElement, htmlString, messageId): the content of the
\* message text element is replaced by the iframe the raw HTML is written to
renderGenericHtmlInFrame(d) ==
    IF d.genericHtmlRendered THEN d
    ELSE [d EXCEPT !.nodes = <<GenericNode>>, !.genericHtmlRendered = TRUE]

\* addGenericHtmlRunButton(messageDomElement, messageId, html)
addGenericHtmlRunButton(d) == [d EXCEPT !.runHtmlButton = TRUE]

\* messageTextElement.querySelector('.ember-iframe, .ember-generic-html-iframe')
HasFrame(d) ==
    IframesIn(d.nodes) # {} \/ Positions(d.nodes, LAMBDA n : n.type = "generic") # {}

\* A flag that is never set
NeverHandled(identified) == FALSE
\* genericHtmlShouldBeHandled
GenericHandled(identified) == identified

\* The statements of processMessage after `if (processedByEmberJs) return;`, for message
\* m shown as d: the document and what the pass did
DirectHtmlAndClickable(d, m) ==
    LET htmlForProcessing == IF chat[m].exists THEN RawText(chat[m].mes) ELSE <<>>
        isUserMessage == chat[m].is_user
        hasGeneric == Positions(d.nodes, LAMBDA n : n.type = "generic") # {}
        identified == /\ emberSettings.directHtmlEnabled /\ ~hasGeneric
                      /\ htmlForProcessing # <<>>
                      /\ complexHtmlRegex(htmlForProcessing)
        autoActivateUser == emberSettings.directHtmlProcessingMode = "both"
        autoActivateResponse == emberSettings.directHtmlProcessingMode = "responses"
                                \/ autoActivateUser
        auto == (isUserMessage /\ autoActivateUser) \/ (~isUserMessage /\ autoActivateResponse)
        d1 == IF identified /\ ~auto THEN addGenericHtmlRunButton(d) ELSE d
        bind == ~HasFrame(d1) /\ ~GenericHandled(identified)
    IN  IF identified /\ auto
        THEN [dom |-> renderGenericHtmlInFrame(d), generic |-> TRUE, clickable |-> FALSE,
              runButton |-> FALSE, complex |-> TRUE]
        ELSE [dom |-> IF bind THEN [d1 EXCEPT !.nodes = processClickableInputs(@)] ELSE d1,
              generic |-> FALSE,
              clickable |-> bind /\ emberSettings.clickableInputsEnabled,
              runButton |-> identified, complex |-> identified]

\* click on .ember-run-html-button: the clickable attributes are removed, the raw HTML
\* is rendered in a frame and the button removes itself
onRunHtmlClick(m) ==
    /\ cpu = 0
    /\ dom[m].present /\ dom[m].runHtmlButton
    /\ LET d == dom[m]
           bare == [d EXCEPT !.nodes = [i \in 1..Len(d.nodes) |->
                       IF d.nodes[i].marker = "clickable" THEN [d.nodes[i] EXCEPT !.marker = ""]
                       ELSE d.nodes[i]]]
           r == renderGenericHtmlInFrame(bare)
       IN  /\ dom' = [dom EXCEPT ![m] = [r EXCEPT !.runHtmlButton = FALSE]]
           /\ ctxs' = [c \in DOMAIN ctxs |-> IF c \in IframesIn(d.nodes) /\ ~d.genericHtmlRendered
                                              THEN Unloaded(ctxs[c]) ELSE ctxs[c]]
    /\ UNCHANGED <<emberSettings, html, variant, now, chat, inbox, emberMaxHeights, passes, cpu,
                   timers, heals, nextId, hist>>

\* The text a fence's code element shows (codeBlock.innerText)
InnerText(frag) == frag.code

\* processMessage: one turn of `for (const codeBlock of ...)` up to its await, or the
\* statements after the loop
processMessage_loop(p) ==
    LET ps == passes[p]
        m == ps.m
        nodes == PassNodes(p)
        next == [ps EXCEPT !.idx = @ + 1]
    IN
    /\ cpu = p /\ ps.pc = "loop"
    /\ IF ps.idx > Len(ps.units)
       THEN \* if (processedByEmberJs) return;  otherwise the raw-markup fallback runs
            IF ps.processedByEmberJs \/ variant # "main" \/ ~dom[m].present
            THEN /\ passes' = [passes EXCEPT ![p] = Returned(ps, FALSE, ~ps.processedByEmberJs)]
                 /\ cpu' = 0
                 /\ UNCHANGED <<dom, now, nextId>>
            ELSE LET r == DirectHtmlAndClickable([dom[m] EXCEPT !.nodes = nodes], m)
                 IN  /\ passes' = [passes EXCEPT ![p] =
                            [Returned(ps, FALSE, TRUE) EXCEPT
                                !.generic = r.generic, !.clickable = r.clickable,
                                !.runButton = r.runButton, !.complex = r.complex]]
                     /\ dom' = IF ps.detached THEN dom ELSE [dom EXCEPT ![m] = r.dom]
                     /\ cpu' = 0
                     /\ UNCHANGED <<now, nextId>>
       ELSE LET u == ps.units[ps.idx]
                i == PosPre(nodes, u)
                pre == nodes[i]
                codeContent == Trim(InnerText(pre.frag))
                javascriptCode ==
                    IF variant # "main" /\ isHtmlWithJavaScript(ClassName(pre.frag), codeContent)
                    THEN extractJavaScriptFromHTML(codeContent)
                    ELSE DecodeEntities(codeContent)
                codeHash == HashKey(Trim(javascriptCode))
                mark(v) == [nodes EXCEPT ![i].marker = v]
                \* the containers are inserted after the pre when it has a parent
                withContainers(fid) ==
                    IF ps.detached THEN mark("true")
                    ELSE InsertAt(mark("true"), i, <<LoadingNode(nextId, fid), FinalNode(nextId, fid)>>)
                start(kind, code, urls, ledger) ==
                    \E t \in now..MaxTime :
                        /\ nextId <= MaxIds
                        /\ now' = t
                        /\ nextId' = IF ps.detached THEN nextId ELSE nextId + 1
                        /\ cpu' = IF urls = <<>> THEN p ELSE 0
                        /\ Commit(p, [ps EXCEPT !.pc = "fenceFetch", !.processedByEmberJs = TRUE,
                                        !.cur = IF ps.detached THEN 0 ELSE nextId,
                                        !.frameId = FrameId(m, kind, t), !.code = code,
                                        !.urls = urls, !.micro = (urls = <<>>),
                                        !.ledger = ledger],
                                  withContainers(FrameId(m, kind, t)))
                skip(np, nn) == Commit(p, np, nn) /\ UNCHANGED <<cpu, now, nextId>>
            IN
            IF variant = "main"
            THEN IF pre.marker = "true"
                 THEN skip([next EXCEPT !.processedByEmberJs = TRUE], nodes)
                 ELSE IF ~pre.frag.hasFm THEN skip(next, nodes)
                 ELSE IF codeContent = <<>> THEN skip(next, mark("skipped"))
                 ELSE start("", codeContent, LibUrls(pre.frag.libs), ps.ledger)
            ELSE IF ~detectJavaScriptContent(ClassName(pre.frag), codeContent)
                 THEN skip(next, nodes)
                 ELSE IF pre.marker = "true"
                 THEN skip([next EXCEPT !.processedByEmberJs = TRUE], nodes)
                 ELSE IF codeContent = <<>> THEN skip(next, mark("skipped"))
                 ELSE IF IsDuplicate(ps.ledger, codeHash)
                 THEN skip(next, [nodes EXCEPT ![i].marker = "duplicate", ![i].display = "none"])
                 ELSE IF PreCheckRejects(javascriptCode)
                 THEN skip([next EXCEPT !.ledger = @ \cup {codeHash},
                                        !.rejected = @ \cup {<<"fence", u>>}],
                           mark("syntax-error"))
                 ELSE start("codeblock", javascriptCode, LibUrls(AllLibs),
                            ps.ledger \cup {codeHash})
    /\ UNCHANGED <<emberSettings, html, variant, chat, ctxs, inbox, emberMaxHeights, timers, heals, hist>>

\* A loop that a failed unit ends
AbandonPass(ps) == Returned(ps, FALSE, FALSE)
\* The end of one turn of the for loop: on to the next code block
NextUnit(ps) == [ps EXCEPT !.pc = "loop", !.idx = @ + 1, !.cur = 0]

\* The containers of the unit being set up that are (still) in the document
InDoc(nodes, type, cur, detached) ==
    IF detached \/ cur = 0 THEN {}
    ELSE Positions(nodes, LAMBDA n : n.type = type /\ n.id = cur)

\* A catch block that leaves the output container in place
KeepContainer(nodes, i, cur, detached) ==
    LET ld == InDoc(nodes, "loading", cur, detached)
        n1 == IF ld = {} THEN nodes
              ELSE [nodes EXCEPT ![First(ld)].content = "setup-error", ![First(ld)].color = "error"]
    IN  [n1 EXCEPT ![i].marker = "false"]

\* catch (error) { loadingContainer.innerHTML = ...; loadingContainer.style.color = ...;
\*                 parentPre.dataset.emberProcessed = 'false'; finalContainer.remove() }
SetupFailed(nodes, i, cur, detached) ==
    LET ld == InDoc(nodes, "loading", cur, detached)
        n1 == IF ld = {} THEN nodes
              ELSE [nodes EXCEPT ![First(ld)].content = "setup-error", ![First(ld)].color = "error"]
        n2 == [n1 EXCEPT ![i].marker = "false"]
        fin == InDoc(n2, "final", cur, detached)
    IN  IF fin = {} THEN n2 ELSE RemoveAt(n2, First(fin))

\* processMessage after `await Promise.all(...)`: the sandbox is built, or the catch
\* block reports the setup error
processMessage_fetched(p, ok) ==
    LET ps == passes[p]
        m == ps.m
        nodes == PassNodes(p)
        u == ps.units[ps.idx]
        i == PosPre(nodes, u)
    IN
    /\ ps.pc = "fenceFetch"
    /\ cpu = IF ps.micro THEN p ELSE 0
    /\ ps.urls = <<>> => ok
    /\ cpu' = p
    /\ IF ok
       THEN LET fin == InDoc(nodes, "final", ps.cur, ps.detached)
                n1 == IF fin = {} THEN nodes ELSE [nodes EXCEPT ![First(fin)].iframe = TRUE]
                next == NextUnit(ps)
            IN  /\ Commit(p, IF fin = {} THEN next ELSE [next EXCEPT !.created = @ \cup {ps.cur}],
                          [n1 EXCEPT ![i].display = "none"])
                /\ ctxs' = IF fin = {} THEN ctxs
                           ELSE (ps.cur :> createSandboxedFrame(ps.code, ps.urls, ps.frameId,
                                                                <<"fence", u>>, p)) @@ ctxs
       ELSE /\ Commit(p, NextUnit([ps EXCEPT !.failed = @ \cup {<<"fence", u>>}]),
                      SetupFailed(nodes, i, ps.cur, ps.detached))
            /\ UNCHANGED ctxs
    /\ UNCHANGED <<emberSettings, html, variant, now, chat, inbox, emberMaxHeights, timers, heals, nextId, hist>>

-----------------------------------------------------------------------------
(* The Bootstrap Runtime: what runs inside an iframe *)

\* Heights a ResizeObserver reports (document.documentElement.scrollHeight)
ReportedHeights == {100, 585, 586}

\* t("Ember Execution Error: " + (err.stack || err.message))
prefixExecution == "Ember Execution Error:"
\* A warning that reads like an execution error
prefixAlarm     == "Ember Execution Error:"
\* t("Ember Warning: Script produced no visual output within 7 seconds.")
prefixWarning   == "Ember Warning:"

\* JavaScript values as typeof sees them; val is the value written as text
Str(s)    == [type |-> "string", val |-> s]
Num(s)    == [type |-> "number", val |-> s]
Bool(s)   == [type |-> "boolean", val |-> s]
Undefined == [type |-> "undefined", val |-> ""]

\* An object with the four properties inject reads, or no object at all (given = FALSE)
Options(content, id, depth, ephemeral) ==
    [given |-> TRUE, id |-> id, depth |-> depth, content |-> content, ephemeral |-> ephemeral]
NoInjection ==
    [given |-> FALSE, id |-> Undefined, depth |-> Undefined, content |-> Undefined,
     ephemeral |-> Undefined]
PostedMsg(type, frameId, message, height, injection, from) ==
    [type |-> type, frameId |-> frameId, message |-> message, height |-> height,
     injection |-> injection, from |-> from]

\* t(o): window.parent.postMessage({type:"ember-error", frameId:e, message:o}, "*")
\* The message text is kept as its fixed prefix and the rest.
ErrorMsg(c, prefix) ==
    PostedMsg("ember-error", ctxs[c].frameId, [prefix |-> prefix, rest |-> ctxs[c].code],
              0, NoInjection, c)
\* n(): window.parent.postMessage({type:"ember-success", frameId:e}, "*")
SuccessMsg(c) == PostedMsg("ember-success", ctxs[c].frameId, [prefix |-> "", rest |-> <<>>],
                           0, NoInjection, c)
ResizeMsg(c, h) == PostedMsg("ember-resize", ctxs[c].frameId, [prefix |-> "", rest |-> <<>>],
                             h, NoInjection, c)
\* t("Ember Internal Error: ember.inject called with invalid options. ...")
prefixInternal == "Ember Internal Error:"

\* An injectionData that copies the four properties as they were given
InjectionAsGiven(options) == options

\* const injectionData = { id: typeof options.id === 'string' ? options.id :
\*   'ember_js_block', depth: typeof options.depth === 'number' ? options.depth : 0,
\*   content: options.content, ephemeral: typeof options.ephemeral === 'boolean' ? ... }
InjectionData(options) ==
    [given |-> TRUE,
     id |-> IF options.id.type = "string" THEN options.id ELSE Str("ember_js_block"),
     depth |-> IF options.depth.type = "number" THEN options.depth ELSE Num("0"),
     content |-> options.content,
     ephemeral |-> IF options.ephemeral.type = "boolean" THEN options.ephemeral
                   ELSE Bool("false")]

\* window.ember.inject(options) called in context c: the messages it posts
inject(c, options) ==
    IF ~options.given \/ options.content.type # "string"
    THEN <<PostedMsg("ember-error", ctxs[c].frameId,
                     [prefix |-> prefixInternal, rest |-> <<>>], 0, NoInjection, c)>>
    ELSE <<PostedMsg("ember-inject-js", ctxs[c].frameId, [prefix |-> "", rest |-> <<>>], 0,
                     InjectionData(options), c)>>

\* window.ember.inject({content: "text"})
InjectMsg(c) == inject(c, Options(Str("text"), Undefined, Undefined, Undefined))[1]

RECURSIVE Repeat(_, _)
Repeat(x, k) == IF k = 0 THEN <<>> ELSE <<x>> \o Repeat(x, k - 1)

\* A completion that the warning ends
CompletionUnlessWarned(cx) ==
    IF cx.o \/ cx.warnings > 0 THEN cx ELSE [cx EXCEPT !.o = TRUE, !.d = FALSE, !.n = TRUE]

\* s(): if(o)return; o=!0, clearTimeout(d), i&&i.disconnect(), setTimeout(n, 50)
CompletionS(cx) == IF cx.o THEN cx ELSE [cx EXCEPT !.o = TRUE, !.d = FALSE, !.n = TRUE]

\* The iframe's document loads and its script runs: timers and observers are set up,
\* the libraries are injected, the user code is invoked inside try/catch, and the
\* MutationObserver callback runs in the microtask that follows.
\* libraryThrows: one of the injected library scripts throws while it runs.  A script
\* element appended to the head runs at once; what it throws is reported to the
\* iframe's window and does not come out of appendChild, so the loop goes on.
\* The user code invoked before the library loop
UserCodeFirst(libraryCodes) == <<"user-code">> \o libraryCodes

\* What the try block of the document's script runs, in order: one script element per
\* library code, appended to the head in array order (an inline script runs when it is
\* appended), then new Function('root', userCodeToRun)(rootElement)
BootstrapOrder(libraryCodes) == libraryCodes \o <<"user-code">>

Bootstrap_exec(c, libraryThrows) ==
    LET cx == ctxs[c]
        eff == Effect(cx.code)
        posts == Repeat(InjectMsg(c), eff.injects)
                 \o (IF eff.threw THEN <<ErrorMsg(c, prefixExecution)>> ELSE <<>>)
        ran == [cx EXCEPT !.phase = "running", !.d = TRUE, !.fb = ~eff.threw,
                          !.late = eff.late, !.hasChild = eff.appended,
                          !.execErrors = IF eff.threw THEN 1 ELSE 0,
                          !.libErrors = IF libraryThrows THEN 1 ELSE 0,
                          !.order = BootstrapOrder(cx.libs)]
    IN
    /\ libraryThrows => cx.libs # <<>>
    /\ cpu = 0
    /\ cx.alive /\ cx.phase = "loading"
    /\ Len(inbox) + Len(posts) <= MaxInbox
    /\ inbox' = inbox \o posts
    /\ ctxs' = [ctxs EXCEPT ![c] = IF eff.appended THEN CompletionS(ran) ELSE ran]
    /\ UNCHANGED <<emberSettings, html, variant, now, chat, dom, emberMaxHeights, passes, cpu, timers, heals,
                   nextId, hist>>

\* The same with libraries that run without throwing
Bootstrap_run(c) == Bootstrap_exec(c, FALSE)

\* Something the user code left behind (an event handler, a timer) calls
\* window.ember.inject(options) after the user code has returned
ember_inject(c, options) ==
    /\ cpu = 0
    /\ ctxs[c].alive /\ ctxs[c].phase = "running"
    /\ hist.injected < MaxInjects
    /\ Len(inbox) < MaxInbox
    /\ inbox' = inbox \o inject(c, options)
    /\ hist' = [hist EXCEPT !.injected = @ + 1]
    /\ UNCHANGED <<emberSettings, html, variant, now, chat, dom, ctxs, emberMaxHeights, passes, cpu, timers,
                   heals, nextId>>

\* setTimeout(n, 50) fires
Bootstrap_success(c) ==
    /\ cpu = 0
    /\ ctxs[c].alive /\ ctxs[c].n
    /\ Len(inbox) < MaxInbox
    /\ inbox' = Append(inbox, SuccessMsg(c))
    /\ ctxs' = [ctxs EXCEPT ![c].n = FALSE, ![c].successes = @ + 1]
    /\ UNCHANGED <<emberSettings, html, variant, now, chat, dom, emberMaxHeights, passes, cpu, timers, heals,
                   nextId, hist>>

\* A 1000 ms timer that completes nothing
Bootstrap_idleFallback(c) ==
    /\ cpu = 0
    /\ ctxs[c].alive /\ ctxs[c].fb
    /\ ctxs' = [ctxs EXCEPT ![c].fb = FALSE]
    /\ UNCHANGED <<emberSettings, html, variant, now, chat, dom, inbox, emberMaxHeights, passes, cpu, timers,
                   heals, nextId, hist>>

\* setTimeout(s, 1000) fires
Bootstrap_fallback(c) ==
    /\ cpu = 0
    /\ ctxs[c].alive /\ ctxs[c].fb
    /\ ctxs' = [ctxs EXCEPT ![c] = CompletionS([@ EXCEPT !.fb = FALSE])]
    /\ UNCHANGED <<emberSettings, html, variant, now, chat, dom, inbox, emberMaxHeights, passes, cpu, timers,
                   heals, nextId, hist>>

\* const d = setTimeout(() => { o || t("Ember Warning: ...") }, 7000) fires; the
\* 1000 ms timer of the same realm has fired before it
Bootstrap_timeout(c) ==
    /\ cpu = 0
    /\ ctxs[c].alive /\ ctxs[c].d /\ ~ctxs[c].fb
    /\ IF ctxs[c].o THEN ctxs' = [ctxs EXCEPT ![c].d = FALSE] /\ UNCHANGED inbox
       ELSE /\ Len(inbox) < MaxInbox
            /\ inbox' = Append(inbox, ErrorMsg(c, prefixWarning))
            /\ ctxs' = [ctxs EXCEPT ![c].d = FALSE, ![c].warnings = 1]
    /\ UNCHANGED <<emberSettings, html, variant, now, chat, dom, emberMaxHeights, passes, cpu, timers, heals,
                   nextId, hist>>

\* A node insertion that user code scheduled happens; the MutationObserver, when still
\* connected, calls s()
Bootstrap_lateInsert(c) ==
    /\ cpu = 0
    /\ ctxs[c].alive /\ ctxs[c].late
    /\ ctxs' = [ctxs EXCEPT ![c] = CompletionS([@ EXCEPT !.late = FALSE, !.hasChild = TRUE])]
    /\ UNCHANGED <<emberSettings, html, variant, now, chat, dom, inbox, emberMaxHeights, passes, cpu, timers,
                   heals, nextId, hist>>

\* new ResizeObserver(() => { const o = Math.ceil(scrollHeight); if (o > 0) postMessage(...) })
Bootstrap_resize(c, h) ==
    /\ cpu = 0
    /\ ctxs[c].alive /\ ctxs[c].phase = "running"
    /\ h > 0
    /\ Len(inbox) < MaxInbox
    /\ inbox' = Append(inbox, ResizeMsg(c, h))
    /\ UNCHANGED <<emberSettings, html, variant, now, chat, dom, ctxs, emberMaxHeights, passes, cpu, timers,
                   heals, nextId, hist>>

-----------------------------------------------------------------------------
(* attemptSelfHeal, up to its first await *)


\* One invocation of attemptSelfHeal.
\*   codeElement : id of the pre whose code element was passed in
\*   originalCode: codeElement.innerText, kept as the fragment it shows
\*   from        : the context whose report caused the call (0: none)
\*   state       : "returned" (busy flag seen), "awaiting" (request sent), then
\*                 "noop", "failed" or "applied"
\*   inFlight    : another invocation for the message was awaiting when this one began
\*   era         : the rendering of the message the call saw
\*   response    : what the repair service answered (<<>>: nothing yet)
\*   notice      : the call showed an alert() to the user
Invocation(m, codeElement, originalCode, auto, from, hadButton, state, inFlight, era) ==
    [m |-> m, codeElement |-> codeElement, originalCode |-> originalCode, auto |-> auto,
     from |-> from, healButton |-> hadButton, state |-> state, inFlight |-> inFlight,
     era |-> era, response |-> <<>>, notice |-> FALSE]

Awaiting(m) == {h \in 1..Len(heals) : heals[h].m = m /\ heals[h].state = "awaiting"}

\* const healButton = querySelector(...); if (healButton?.classList.contains('fa-spin'))
\* return; if (healButton) healButton.classList.add('fa-spin'); ... await fetch(...)
\* d is the document the call sees; the result is the document and the call's record.
attemptSelfHeal_call(d, m, i, auto, from) ==
    LET pre == d[m].nodes[i]
        btn == d[m].healButton
        busy == btn /\ d[m].spin
        rec == Invocation(m, pre.id, pre.frag, auto, from, btn,
                          IF busy THEN "returned" ELSE "awaiting", Awaiting(m) # {},
                          d[m].era)
    IN  [dom |-> IF btn /\ ~busy THEN [d EXCEPT ![m].spin = TRUE] ELSE d,
         heals |-> Append(heals, rec)]

\* document.querySelector(`.mes[mesid="${m}"] pre[data-ember-processed="true"] > code`)
MarkedTrue(d, m) ==
    IF m \in Msgs /\ d[m].present
    THEN Positions(d[m].nodes, LAMBDA n : n.type = "pre" /\ n.marker = "true")
    ELSE {}

-----------------------------------------------------------------------------
(* The Message Router: window.addEventListener('message', ...) *)

SetAt(d, pos, f(_)) == IF pos = <<>> THEN d
                       ELSE [d EXCEPT ![pos[1]].nodes[pos[2]] = f(@)]

\* case 'ember-error'
\* A test that every reported text passes
IsAnyError(message) == TRUE

\* message.startsWith('Ember Execution Error:')
IsExecutionError(message) == message.prefix = prefixExecution

Router_error ==
    /\ cpu = 0 /\ inbox # <<>> /\ Head(inbox).type = "ember-error"
    /\ LET msg == Head(inbox)
           lc == QueryContainer(dom, "loading", msg.frameId)
           fc == QueryContainer(dom, "final", msg.frameId)
           d1 == SetAt(dom, lc, LAMBDA n : [n EXCEPT !.content = "error", !.color = "error",
                                                     !.display = "flex"])
           d2 == SetAt(d1, fc, LAMBDA n : [n EXCEPT !.display = "none"])
           msgIdErr == msg.frameId.m
           codeElErr == MarkedTrue(d2, msgIdErr)
       IN  /\ inbox' = Tail(inbox)
           /\ IF lc = <<>> THEN UNCHANGED <<dom, heals>>
              ELSE IF codeElErr # {} /\ IsExecutionError(msg.message)
              THEN LET r == attemptSelfHeal_call(d2, msgIdErr, First(codeElErr), TRUE, msg.from)
                   IN  /\ Len(heals) < MaxHeals
                       /\ dom' = r.dom /\ heals' = r.heals
              ELSE dom' = d2 /\ UNCHANGED heals
    /\ UNCHANGED <<emberSettings, html, variant, now, chat, ctxs, emberMaxHeights, passes, cpu, timers, nextId, hist>>

\* case 'ember-success'
Router_success ==
    /\ cpu = 0 /\ inbox # <<>> /\ Head(inbox).type = "ember-success"
    /\ LET msg == Head(inbox)
           lc == QueryContainer(dom, "loading", msg.frameId)
           fc == QueryContainer(dom, "final", msg.frameId)
           d1 == SetAt(dom, lc, LAMBDA n : [n EXCEPT !.display = "none"])
       IN  dom' = SetAt(d1, fc, LAMBDA n : [n EXCEPT !.display = "block"])
    /\ inbox' = Tail(inbox)
    /\ UNCHANGED <<emberSettings, html, variant, now, chat, ctxs, emberMaxHeights, passes, cpu, timers, heals,
                   nextId, hist>>

\* const maxAllowedHeight = 600 (the later generation of the listener only)
maxAllowedHeight == 600

\* emberMaxHeights[frameId] || 0
CurrentMax(frameId) ==
    IF frameId \in DOMAIN emberMaxHeights THEN emberMaxHeights[frameId] ELSE 0

\* let newHeight = height + 15; if (newHeight > maxAllowedHeight) newHeight = maxAllowedHeight
NewHeight(height) ==
    IF variant = "main" THEN height + 15 ELSE Min(height + 15, maxAllowedHeight)

\* case 'ember-resize'
Router_resize ==
    /\ cpu = 0 /\ inbox # <<>> /\ Head(inbox).type = "ember-resize"
    /\ LET msg == Head(inbox)
           fc == QueryContainer(dom, "final", msg.frameId)
           newHeight == NewHeight(msg.height)
       IN  IF fc = <<>> \/ msg.height <= 0 \/ ~(newHeight > CurrentMax(msg.frameId))
           THEN UNCHANGED <<dom, emberMaxHeights>>
           ELSE /\ emberMaxHeights' =
                     [f \in DOMAIN emberMaxHeights \cup {msg.frameId} |->
                         IF f = msg.frameId THEN newHeight ELSE emberMaxHeights[f]]
                /\ dom' = SetAt(dom, fc, LAMBDA n : [n EXCEPT !.height = newHeight])
    /\ inbox' = Tail(inbox)
    /\ UNCHANGED <<emberSettings, html, variant, now, chat, ctxs, passes, cpu, timers, heals, nextId, hist>>

\* An inject handler that writes into the stored source of the hosting message
InjectIntoSource ==
    /\ cpu = 0 /\ inbox # <<>> /\ Head(inbox).type = "ember-inject-js"
    /\ hist' = IF Head(inbox).injection.content.type = "string"
               THEN [hist EXCEPT !.injectCalls = @ + 1] ELSE hist
    /\ inbox' = Tail(inbox)
    /\ chat' = [chat EXCEPT ![Head(inbox).frameId.m].mes = <<>>]
    /\ UNCHANGED <<emberSettings, html, variant, now, dom, ctxs, emberMaxHeights, passes, cpu, timers,
                   heals, nextId>>

\* case 'ember-inject-js': when the payload carries a string content the command
\* string is built and handed to SlashCommands.executeCommand inside try/catch.
\*   ex : executeCommand throws or rejects; the catch block logs it
\* injection.id.replace(...) is evaluated before the try block: with an id that is not a
\* string it throws a TypeError that nothing in the listener catches.
Router_injectJs(ex) ==
    /\ cpu = 0 /\ inbox # <<>> /\ Head(inbox).type = "ember-inject-js"
    /\ LET injection == Head(inbox).injection
       IN  hist' = IF injection.given /\ injection.content.type = "string"
                   THEN IF injection.id.type # "string"
                        THEN [hist EXCEPT !.uncaught = Min(@ + 1, MaxInjects)]
                        ELSE [hist EXCEPT !.injectCalls = @ + 1,
                                          !.caught = IF ex THEN Min(@ + 1, MaxInjects) ELSE @]
                   ELSE hist
    /\ inbox' = Tail(inbox)
    /\ UNCHANGED <<emberSettings, html, variant, now, chat, dom, ctxs, emberMaxHeights, passes, cpu, timers,
                   heals, nextId>>

\* The same with a collaborator that accepts the command
Router_inject == Router_injectJs(FALSE)

-----------------------------------------------------------------------------
(* cleanupEmberElements and re-rendering *)

\* String(n) of a natural number
RECURSIVE Decimal(_)
Decimal(n) == IF n < 10 THEN <<48 + n>> ELSE Decimal(n \div 10) \o <<48 + (n % 10)>>

emberFrame == <<101, 109, 98, 101, 114, 45, 102, 114, 97, 109, 101, 45>>     \* ember-frame-
dash == <<45>>

\* The string a frame id is: `ember-frame-${messageId}-${Date.now()}` and the later
\* generation's `ember-frame-${messageId}-script-${Date.now()}`, `...-codeblock-...`
FrameKey(f) ==
    emberFrame \o Decimal(f.m) \o dash
       \o (CASE f.kind = "script" -> <<115, 99, 114, 105, 112, 116>> \o dash
             [] f.kind = "codeblock" -> <<99, 111, 100, 101, 98, 108, 111, 99, 107>> \o dash
             [] OTHER -> <<>>)
       \o Decimal(f.t)

\* The prefix without the dash that ends the message id
IdPrefix(m) == emberFrame \o Decimal(m)
\* `ember-frame-${messageId}-`
KeyPrefix(m) == emberFrame \o Decimal(m) \o dash

\* The result of cleanupEmberElements(m) on document d: containers removed, markers and
\* inline display of every marked pre cleared, height records of the message deleted.
cleanupEmberElements(d, cx, emh, m) ==
    IF ~(m \in Msgs /\ d[m].present) THEN [dom |-> d, ctxs |-> cx, emh |-> emh]
    ELSE LET old == d[m].nodes
             gone == IframesIn(old)
             kept == SelectSeq(old, LAMBDA n : n.type \in {"pre", "element"})
             cleared == [i \in 1..Len(kept) |->
                           IF kept[i].marker # "" THEN [kept[i] EXCEPT !.marker = "", !.display = ""]
                           ELSE kept[i]]
         IN  [dom |-> [d EXCEPT ![m].nodes = cleared, ![m].runHtmlButton = FALSE,
                                ![m].genericHtmlRendered = FALSE],
              ctxs |-> [c \in DOMAIN cx |-> IF c \in gone THEN Unloaded(cx[c])
                                             ELSE cx[c]],
              emh |-> [f \in {g \in DOMAIN emh : ~StartsWith(FrameKey(g), KeyPrefix(m))}
                         |-> emh[f]]]

\* A repair that leaves the rendered message as it was
StaleRender(d, cx, ps, m, mes) == [dom |-> d, ctxs |-> cx, passes |-> ps]

\* msgEl.innerHTML = messageFormatting(msg.mes, ...): the message text element gets new
\* children; iframes among the old ones are unloaded, and a pass still running on the
\* message keeps the elements it holds, now outside the document
Rerender(d, cx, ps, m, mes) ==
    [dom |-> [d EXCEPT ![m].nodes = messageFormatting(mes), ![m].era = @ + 1],
     ctxs |-> [c \in DOMAIN cx |-> IF c \in IframesIn(d[m].nodes)
                                    THEN Unloaded(cx[c]) ELSE cx[c]],
     passes |-> [p \in PassIds |->
                    IF ps[p].m = m /\ ps[p].pc \notin {"idle", "done"} /\ ~ps[p].detached
                    THEN [ps[p] EXCEPT !.detached = TRUE, !.own = d[m].nodes]
                    ELSE ps[p]]]

-----------------------------------------------------------------------------
(* attemptSelfHeal, after the repair service answered *)

Text(hasFm, libs, code) == [hasFm |-> hasFm, libs |-> libs, code |-> code]
TextOf(frag) == Text(frag.hasFm, frag.libs, frag.code)
EmptyText == Text(FALSE, <<>>, <<>>)
\* A comparison that does not trim
Untrimmed(t) == t
\* String.prototype.trim on a text that may start with a frontmatter section
TrimText(t) == IF t.hasFm THEN [t EXCEPT !.code = TrimRight(@)] ELSE [t EXCEPT !.code = Trim(@)]

AllWhite(s) == \A i \in 1..Len(s) : IsWhite(s[i])

\* /```javascript\s*<originalCode>\s*```/ matches the fence: same language tag, and the
\* body is the original text with white space around it
SpanMatches(frag, orig) ==
    /\ frag.kind = "fence" /\ frag.lang = tagJavascript
    /\ frag.hasFm = orig.hasFm /\ frag.libs = orig.libs
    /\ \E i \in 0..(Len(frag.code) - Len(orig.code)) :
          /\ orig.hasFm => i = 0
          /\ SubSeq(frag.code, i + 1, i + Len(orig.code)) = orig.code
          /\ AllWhite(SubSeq(frag.code, 1, i))
          /\ AllWhite(SubSeq(frag.code, i + Len(orig.code) + 1, Len(frag.code)))

\* The frontmatter text the corrected markdown puts in front of the new fence
FmText(libs) == [kind |-> "fmtext", lang |-> <<>>, hasFm |-> TRUE, libs |-> libs,
                 code |-> <<>>, src |-> NoSrc]

\* msg.mes.replace(fullOriginalMarkdown, correctedMarkdown): the first matching fence,
\* with a frontmatter text directly in front of it, becomes frontmatter text + new fence
ReplaceSpan(mes, k, orig, corrected) ==
    LET from == IF k > 1 /\ mes[k - 1].kind = "fmtext" THEN k - 1 ELSE k
    IN  SubSeq(mes, 1, from - 1)
        \o <<FmText(IF orig.hasFm THEN orig.libs ELSE <<>>),
             Fence(tagJavascript, corrected.hasFm, corrected.libs, corrected.code)>>
        \o SubSeq(mes, k + 1, Len(mes))

\* What the repair service may answer for an original text
Responses(orig) ==
    {[ok |-> FALSE, text |-> EmptyText], [ok |-> TRUE, text |-> EmptyText],
     [ok |-> TRUE, text |-> [orig EXCEPT !.code = @ \o <<Ch.sp>>]],
     [ok |-> TRUE, text |-> Text(TRUE, <<>>, <<Ch.A>>)],
     [ok |-> TRUE, text |-> Text(FALSE, <<>>, <<Ch.A>>)]}

\* A finally block that leaves the class on the button
KeepSpin(d, m, healButton) == d

\* finally { if (healButton) healButton.classList.remove('fa-spin'); }
RemoveSpin(d, m, healButton) == IF healButton THEN [d EXCEPT ![m].spin = FALSE] ELSE d

\* renderThrows: messageFormatting or addCopyToCodeBlocks (functions of the host) throws
\* while the repaired message is rendered; the catch block reports it
attemptSelfHeal_settle(h, resp, renderThrows) ==
    LET inv == heals[h]
        m == inv.m
        orig == TextOf(inv.originalCode)
        correctedCode == TrimText(resp.text)
        unspin(d) == RemoveSpin(d, m, inv.healButton)
        differs == correctedCode # EmptyText /\ TrimText(correctedCode) # TrimText(orig)
        pres == IF dom[m].present THEN Positions(dom[m].nodes, LAMBDA n : n.type = "pre") ELSE {}
        preElement == MarkedTrue(dom, m) # {}
                      \/ \E i \in pres : TrimText(TextOf(dom[m].nodes[i].frag)) = TrimText(orig)
        spans == IF chat[m].exists
                 THEN {k \in 1..Len(chat[m].mes) : SpanMatches(chat[m].mes[k], orig)} ELSE {}
        abort(st, alerts) ==
            /\ heals' = [heals EXCEPT ![h].state = st, ![h].response = <<resp>>,
                                      ![h].notice = (alerts > 0)]
            /\ dom' = unspin(dom)
            /\ hist' = [hist EXCEPT !.alerts = Min(@ + alerts, MaxHeals)]
            /\ UNCHANGED <<chat, ctxs, emberMaxHeights, passes, timers>>
    IN
    /\ cpu = 0
    /\ h \in 1..Len(heals) /\ inv.state = "awaiting"
    /\ IF ~resp.ok THEN ~renderThrows /\ abort("failed", 1)
       ELSE IF ~differs THEN ~renderThrows /\ abort("noop", 0)
       ELSE IF ~chat[m].exists \/ ~preElement \/ spans = {}
       THEN ~renderThrows /\ abort("failed", 1)
       ELSE LET mes2 == ReplaceSpan(chat[m].mes, First(spans), orig, correctedCode)
            IN  /\ chat' = [chat EXCEPT ![m].mes = mes2]
                /\ renderThrows => dom[m].present
                /\ heals' = [heals EXCEPT ![h].state = IF renderThrows THEN "failed" ELSE "applied",
                                          ![h].response = <<resp>>,
                                          ![h].notice = ~dom[m].present \/ renderThrows]
                /\ IF renderThrows
                   THEN LET c1 == cleanupEmberElements(dom, ctxs, emberMaxHeights, m)
                        IN  /\ dom' = unspin(c1.dom)
                            /\ ctxs' = c1.ctxs
                            /\ emberMaxHeights' = c1.emh
                            /\ hist' = [hist EXCEPT !.alerts = Min(@ + 1, MaxHeals)]
                            /\ UNCHANGED <<passes, timers>>
                   ELSE IF dom[m].present
                   THEN LET c1 == cleanupEmberElements(dom, ctxs, emberMaxHeights, m)
                            r == Rerender(c1.dom, c1.ctxs, passes, m, mes2)
                            \* the MESSAGE_EDITED listener: cleanup, handleMessageRender
                            c2 == cleanupEmberElements(r.dom, r.ctxs, c1.emh, m)
                        IN  /\ dom' = unspin(c2.dom)
                            /\ ctxs' = c2.ctxs
                            /\ emberMaxHeights' = c2.emh
                            /\ passes' = r.passes
                            /\ timers' = [timers EXCEPT ![m] = @ + 2]
                            /\ UNCHANGED hist
                   ELSE /\ dom' = unspin(dom)
                        /\ hist' = [hist EXCEPT !.alerts = Min(@ + 1, MaxHeals)]
                        /\ UNCHANGED <<ctxs, emberMaxHeights, passes, timers>>
    /\ UNCHANGED <<emberSettings, html, variant, now, inbox, cpu, nextId>>

\* The same with a host that renders the repaired message without throwing
attemptSelfHeal_resume(h, resp) == attemptSelfHeal_settle(h, resp, FALSE)

-----------------------------------------------------------------------------
(* Host events and the extension's listeners *)

\* USER_MESSAGE_RENDERED, CHARACTER_MESSAGE_RENDERED, CHAT_CHANGED with type 'new':
\* handleMessageRender(id, ...)
onMessageRendered(m) ==
    /\ cpu = 0
    /\ hist.events < MaxRenders
    /\ hist' = [hist EXCEPT !.events = @ + 1]
    /\ timers' = [timers EXCEPT ![m] = @ + 1]
    /\ UNCHANGED <<emberSettings, html, variant, now, chat, dom, ctxs, inbox, emberMaxHeights, passes, cpu,
                   heals, nextId>>

\* MESSAGE_EDITED: the host has stored the edited source and rendered it; the listener
\* runs cleanupEmberElements(id) and, when the message exists, handleMessageRender
onMessageEdited(m, mes) ==
    /\ cpu = 0
    /\ hist.events < MaxRenders
    /\ chat[m].exists /\ dom[m].present
    /\ LET r == Rerender(dom, ctxs, passes, m, mes)
           c == cleanupEmberElements(r.dom, r.ctxs, emberMaxHeights, m)
       IN  /\ dom' = c.dom /\ ctxs' = c.ctxs /\ emberMaxHeights' = c.emh
           /\ passes' = r.passes
    /\ chat' = [chat EXCEPT ![m].mes = mes]
    /\ hist' = [hist EXCEPT !.events = @ + 1]
    /\ timers' = [timers EXCEPT ![m] = @ + 1]
    /\ UNCHANGED <<emberSettings, html, variant, now, inbox, cpu, heals, nextId>>

RECURSIVE CleanAll(_, _, _, _)
CleanAll(d, cx, emh, ms) ==
    IF ms = {} THEN [dom |-> d, ctxs |-> cx, emh |-> emh]
    ELSE LET m == First(ms)
             c == cleanupEmberElements(d, cx, emh, m)
         IN  CleanAll(c.dom, c.ctxs, c.emh, ms \ {m})

\* CHAT_LOADED, CHAT_CHANGED without a type, a settings change: processExistingMessages
processExistingMessages ==
    /\ cpu = 0
    /\ hist.events < MaxRenders
    /\ LET shown == {m \in Msgs : dom[m].present}
           c == CleanAll(dom, ctxs, emberMaxHeights, shown)
       IN  /\ dom' = c.dom /\ ctxs' = c.ctxs /\ emberMaxHeights' = c.emh
           /\ timers' = [m \in Msgs |-> IF m \in shown /\ chat[m].exists
                                         THEN timers[m] + 1 ELSE timers[m]]
    /\ hist' = [hist EXCEPT !.events = @ + 1]
    /\ UNCHANGED <<emberSettings, html, variant, now, chat, inbox, passes, cpu, heals, nextId>>

\* $(document).on('click', '.ember-heal-button', ...)
onHealClick(m) ==
    /\ cpu = 0
    /\ dom[m].present /\ dom[m].healButton
    /\ LET codeElement == MarkedTrue(dom, m)
       IN  IF codeElement # {}
           THEN LET r == attemptSelfHeal_call(dom, m, First(codeElement), FALSE, 0)
                IN  /\ Len(heals) < MaxHeals
                    /\ dom' = r.dom /\ heals' = r.heals
                    /\ UNCHANGED hist
           ELSE /\ hist.alerts < MaxHeals
                /\ hist' = [hist EXCEPT !.alerts = @ + 1]
                /\ UNCHANGED <<dom, heals>>
    /\ UNCHANGED <<emberSettings, html, variant, now, chat, ctxs, inbox, emberMaxHeights, passes, cpu, timers,
                   nextId>>

\* Another window, or user code itself, posts to the host window
ForeignMsg(type, frameId, prefix, height) ==
    PostedMsg(type, frameId, [prefix |-> prefix, rest |-> <<>>], height, NoInjection, 0)
postMessage(msg) ==
    /\ cpu = 0
    /\ hist.foreign < MaxForeign
    /\ Len(inbox) < MaxInbox
    /\ inbox' = Append(inbox, msg)
    /\ hist' = [hist EXCEPT !.foreign = @ + 1]
    /\ UNCHANGED <<emberSettings, html, variant, now, chat, dom, ctxs, emberMaxHeights, passes, cpu, timers,
                   heals, nextId>>

\* Frame ids of the containers in the document
FramesIn(d) ==
    UNION {{d[m].nodes[i].frameId : i \in Positions(d[m].nodes, LAMBDA n : n.type = "final")}
           : m \in {k \in Msgs : d[k].present}}

-----------------------------------------------------------------------------
(* Initial states: a chat has been loaded and its messages rendered *)

\* The HTML processing module has not been called
NoHtml == [pc |-> "idle", text |-> <<>>, result |-> <<>>, htmlParts |-> <<>>]

\*   runHtmlButton       : .ember-run-html-button among the message's buttons
\*   genericHtmlRendered : dataset.genericHtmlRendered of the message text element
Shown(mes, btn) == [present |-> TRUE, healButton |-> btn, spin |-> FALSE, edit |-> FALSE,
                    era |-> 0, nodes |-> messageFormatting(mes),
                    runHtmlButton |-> FALSE, genericHtmlRendered |-> FALSE]
Absent == [present |-> FALSE, healButton |-> FALSE, spin |-> FALSE, edit |-> FALSE,
           era |-> 0, nodes |-> <<>>, runHtmlButton |-> FALSE, genericHtmlRendered |-> FALSE]

\* let emberSettings = { directHtmlEnabled: true, directHtmlProcessingMode: 'both',
\*                       clickableInputsEnabled: true, ... }
DefaultSettings ==
    [directHtmlEnabled |-> TRUE, directHtmlProcessingMode |-> "both",
     clickableInputsEnabled |-> TRUE]
NoHist == [events |-> 0, foreign |-> 0, injectCalls |-> 0, alerts |-> 0, uncaught |-> 0,
           caught |-> 0, injected |-> 0]

\* v: the generation of the engine; c: the chat; btn: which messages carry a heal button
InitWith(v, c, btn) ==
    /\ variant = v
    /\ now = 0
    /\ chat = c
    /\ dom = [m \in Msgs |-> IF c[m].exists THEN Shown(c[m].mes, btn[m]) ELSE Absent]
    /\ ctxs = <<>>
    /\ inbox = <<>>
    /\ emberMaxHeights = <<>>
    /\ passes = [p \in PassIds |-> IdlePass]
    /\ cpu = 0
    /\ timers = [m \in Msgs |-> IF c[m].exists THEN 1 ELSE 0]
    /\ heals = <<>>
    /\ nextId = 1
    /\ hist = NoHist
    /\ html = NoHtml
    /\ emberSettings = DefaultSettings

-----------------------------------------------------------------------------
(* The frontmatter generation of the engine (src/main.js) *)

\* Fences of the messages explored
uOk    == Fence(tagJavascript, TRUE, <<>>, <<Ch.A>>)
uThrow == Fence(tagJavascript, TRUE, <<>>, <<Ch.T>>)
uLibs  == Fence(tagJavascript, TRUE, <<"d3", "nolib", "p5">>, <<Ch.A>>)
uQuiet == Fence(tagJavascript, TRUE, <<>>, <<Ch.I, Ch.L>>)
uPlain == Fence(tagJavascript, FALSE, <<>>, <<Ch.A>>)

\* Fragments of the later generation: fences need no frontmatter, scripts are raw tags
fOk    == Fence(tagJavascript, FALSE, <<>>, <<Ch.A>>)
sOk    == Script(NoSrc, <<Ch.A>>)

OnlyMessage(mes) == [m \in Msgs |-> IF m = 1 THEN Msg(mes) ELSE NoMsg]
Buttons(b) == [m \in Msgs |-> b]

-----------------------------------------------------------------------------
(* Resize reports: one unit per message, both generations of the listener *)

UnknownFrame == FrameId(1, "", MaxTime + 1)

InitResize ==
    \/ InitWith("main", OnlyMessage(<<uOk>>), Buttons(FALSE))
    \/ InitWith("p000", OnlyMessage(<<sOk>>), Buttons(FALSE))

NextResize ==
    \/ \E p \in PassIds, m \in Msgs : handleMessageRender_timeout(p, m)
    \/ \E p \in PassIds : processScriptTagsInHTML_step(p)
    \/ \E p \in PassIds, ok \in BOOLEAN : processScriptTagsInHTML_fetched(p, ok)
    \/ \E p \in PassIds : processMessage_loop(p)
    \/ \E p \in PassIds, ok \in BOOLEAN : processMessage_fetched(p, ok)
    \/ \E c \in DOMAIN ctxs : Bootstrap_run(c)
    \/ \E c \in DOMAIN ctxs : Bootstrap_success(c)
    \/ \E c \in DOMAIN ctxs : Bootstrap_fallback(c)
    \/ Router_success
    \/ \E c \in DOMAIN ctxs, h \in ReportedHeights : Bootstrap_resize(c, h)
    \/ \E f \in FramesIn(dom) \cup {UnknownFrame}, h \in {-1, 0, 100} :
          postMessage(ForeignMsg("ember-resize", f, "", h))
    \/ Router_resize
    \/ processExistingMessages

SpecResize == InitResize /\ [][NextResize]_vars

\* The height applied to the output container with identity id (0: none applied, or
\* no such container)
AppliedHeight(d, id) ==
    LET at(m) == Positions(d[m].nodes, LAMBDA n : n.type = "final" /\ n.id = id)
        hs == UNION {{d[m].nodes[i].height : i \in at(m)} : m \in {k \in Msgs : d[k].present}}
    IN  IF hs = {} THEN 0 ELSE CHOOSE h \in hs : TRUE
HasContainer(d, id) ==
    \E m \in Msgs : d[m].present
        /\ Positions(d[m].nodes, LAMBDA n : n.type = "final" /\ n.id = id) # {}

\* C2: between the creation of a context's container and its cleanup the height applied
\* to the container never decreases and never exceeds 600, and a resize report with
\* height <= 0 or for a frame without a container changes neither the document nor the
\* recorded heights.
C2_ResizeMonotoneCapped ==
    [][ /\ \A id \in 1..MaxIds :
             HasContainer(dom, id) /\ HasContainer(dom', id) =>
                 /\ AppliedHeight(dom', id) >= AppliedHeight(dom, id)
                 /\ AppliedHeight(dom', id) <= 600
        /\ ( /\ inbox # <<>> /\ inbox' = Tail(inbox)
             /\ Head(inbox).type = "ember-resize"
             /\ Head(inbox).height <= 0 \/ QueryContainer(dom, "final", Head(inbox).frameId) = <<>> )
           => UNCHANGED <<dom, emberMaxHeights>> ]_vars

\* The later generation of the listener keeps every applied height within the ceiling
C2_CappedInLaterGeneration ==
    variant = "p000" => \A id \in 1..MaxIds : AppliedHeight(dom, id) <= maxAllowedHeight

-----------------------------------------------------------------------------
(* Deduplication in one pass of the later generation *)

fBad == Fence(tagJavascript, FALSE, <<>>, <<Ch.hash>>)
fPad == Fence(tagJavascript, FALSE, <<>>, <<Ch.sp, Ch.A>>)
fEnt == Fence(tagJavascript, FALSE, <<>>, <<Ch.B>> \o entLt \o <<Ch.B>>)
sEnt == Script(NoSrc, <<Ch.B>> \o entLt \o <<Ch.B>>)
fAa  == Fence(tagJs, FALSE, <<>>, <<Ch.A, 97>>)
fBB  == Fence(tagJs, FALSE, <<>>, <<Ch.B, Ch.B>>)

DedupMessages ==
    {<<fOk, fOk>>, <<sOk, fOk>>, <<sOk, sOk>>, <<fBad, fBad>>, <<fPad, fOk>>,
     <<sEnt, fEnt>>, <<fAa, fBB>>}

InitDedup == \E mes \in DedupMessages : InitWith("p000", OnlyMessage(mes), Buttons(FALSE))

NextDedup ==
    \/ \E p \in PassIds, m \in Msgs : handleMessageRender_timeout(p, m)
    \/ \E p \in PassIds : processScriptTagsInHTML_step(p)
    \/ \E p \in PassIds, ok \in BOOLEAN : processScriptTagsInHTML_fetched(p, ok)
    \/ \E p \in PassIds : processMessage_loop(p)
    \/ \E p \in PassIds, ok \in BOOLEAN : processMessage_fetched(p, ok)
    \/ \E c \in DOMAIN ctxs : Bootstrap_run(c)
    \/ \E c \in DOMAIN ctxs : Bootstrap_success(c)
    \/ \E c \in DOMAIN ctxs : Bootstrap_fallback(c)
    \/ Router_success

SpecDedup == InitDedup /\ [][NextDedup]_vars

\* The code units of message m in the order one pass meets them: inline scripts of the
\* raw source, then the fences classified as direct script.
\*   key    : what the pass looks up in its ledger
\*   source : the trimmed, entity-decoded text
\*   valid  : the text the pass would run passes the syntax pre-check
ScriptOccurrences(m) ==
    LET ss == SelectSeq(chat[m].mes, LAMBDA f : f.kind = "script")
        occ(k) == [unit |-> <<"script", k>>, key |-> HashKey(Trim(ss[k].code)),
                   source |-> Trim(DecodeEntities(Trim(ss[k].code))),
                   valid |-> SyntaxOK(Trim(ss[k].code)),
                   counts |-> ~SkipsScript(ss[k]) /\ Trim(ss[k].code) # <<>>]
    IN  SelectSeq([k \in 1..Len(ss) |-> occ(k)], LAMBDA o : o.counts)
FenceOccurrences(m) ==
    LET ps == SelectSeq(dom[m].nodes, LAMBDA n : n.type = "pre")
        occ(k) == [unit |-> <<"fence", ps[k].id>>,
                   key |-> HashKey(Trim(DecodeEntities(Trim(ps[k].frag.code)))),
                   source |-> Trim(DecodeEntities(Trim(ps[k].frag.code))),
                   valid |-> SyntaxOK(DecodeEntities(Trim(ps[k].frag.code))),
                   counts |-> detectJavaScriptContent(ClassName(ps[k].frag),
                                                      Trim(InnerText(ps[k].frag)))
                              /\ Trim(ps[k].frag.code) # <<>>]
    IN  SelectSeq([k \in 1..Len(ps) |-> occ(k)], LAMBDA o : o.counts)
Occurrences(m) == ScriptOccurrences(m) \o FenceOccurrences(m)

ContextsOf(unit) == {c \in DOMAIN ctxs : ctxs[c].src = unit}
\* The pre of a fence unit is hidden and marked duplicate
HiddenDuplicate(m, unit) ==
    \E i \in 1..Len(dom[m].nodes) :
        /\ dom[m].nodes[i].type = "pre" /\ dom[m].nodes[i].id = unit[2]
        /\ dom[m].nodes[i].marker = "duplicate" /\ dom[m].nodes[i].display = "none"
FinishedPass(p, m) == passes[p].pc = "done" /\ passes[p].m = m /\ ~passes[p].early

\* C1 (as stated): when a pass over a message has finished, every group of code units
\* with the same trimmed, entity-decoded source has exactly one Execution Context, and
\* every other occurrence of the group is hidden and marked duplicate.
C1_ExactlyOnePerSource ==
    \A p \in PassIds, m \in Msgs : FinishedPass(p, m) =>
        LET occ == Occurrences(m) IN
        \A i \in 1..Len(occ) :
            LET group == {j \in 1..Len(occ) : occ[j].source = occ[i].source}
                ran == {j \in group : ContextsOf(occ[j].unit) # {}}
            IN  /\ Cardinality(UNION {ContextsOf(occ[j].unit) : j \in group}) = 1
                /\ \A j \in group \ ran : HiddenDuplicate(m, occ[j].unit)

\* C1 (amended): in one pass, of the code units that share a ledger key (the hash of the
\* trimmed text of a script, of the trimmed entity-decoded text of a fence) only the
\* first can get an Execution Context, and it gets exactly one when it passes the syntax
\* pre-check and its libraries load, none otherwise; every later fence of the group is
\* hidden and marked duplicate, and no later occurrence is executed.
C1_OnePerLedgerKey ==
    /\ \A c1, c2 \in DOMAIN ctxs : ctxs[c1].src = ctxs[c2].src => c1 = c2
    /\ \A p \in PassIds, m \in Msgs : FinishedPass(p, m) =>
        LET occ == Occurrences(m) IN
        \A i \in 1..Len(occ) :
            IF \E j \in 1..(i - 1) : occ[j].key = occ[i].key
            THEN /\ ContextsOf(occ[i].unit) = {}
                 /\ occ[i].unit[1] = "fence" => HiddenDuplicate(m, occ[i].unit)
            ELSE (ContextsOf(occ[i].unit) # {})
                    <=> (occ[i].valid /\ occ[i].unit \notin passes[p].failed)

\* A finished pass in which a script ran once and the fence with the same text was
\* hidden as its duplicate
C1_Witness ==
    \E p \in PassIds : FinishedPass(p, 1)
        /\ \E c \in DOMAIN ctxs : ctxs[c].src = <<"script", 1>>
        /\ \E i \in 1..Len(dom[1].nodes) :
              /\ dom[1].nodes[i].marker = "duplicate" /\ dom[1].nodes[i].display = "none"
              /\ Trim(dom[1].nodes[i].frag.code) = ctxs[1].code
        /\ Cardinality(DOMAIN ctxs) = 1

-----------------------------------------------------------------------------
(* Running the Message Processor again *)

InitRerun ==
    \/ \E mes \in {<<uOk>>, <<uOk, uLibs>>} : InitWith("main", OnlyMessage(mes), Buttons(FALSE))
    \/ \E mes \in {<<sOk>>, <<fOk, fEnt>>} : InitWith("p000", OnlyMessage(mes), Buttons(FALSE))

NextRerun ==
    \/ \E p \in PassIds, m \in Msgs : handleMessageRender_timeout(p, m)
    \/ \E p \in PassIds : processScriptTagsInHTML_step(p)
    \/ \E p \in PassIds, ok \in BOOLEAN : processScriptTagsInHTML_fetched(p, ok)
    \/ \E p \in PassIds : processMessage_loop(p)
    \/ \E p \in PassIds, ok \in BOOLEAN : processMessage_fetched(p, ok)
    \/ \E c \in DOMAIN ctxs : Bootstrap_run(c)
    \/ \E c \in DOMAIN ctxs : Bootstrap_success(c)
    \/ \E c \in DOMAIN ctxs : Bootstrap_fallback(c)
    \/ Router_success
    \/ \E m \in Msgs : onMessageRendered(m)

SpecRerun == InitRerun /\ [][NextRerun]_vars

ContainersOf(m, type) == Positions(dom[m].nodes, LAMBDA n : n.type = type)

\* Every code unit of message m has run and was reported successful: no pass is at work
\* on m, m shows at least one output container, every output container holds a live
\* frame and is revealed, every loading indicator is hidden, and every fence that is a
\* code unit has been handled
AllSucceeded(m) ==
    /\ dom[m].present
    /\ \A p \in PassIds : passes[p].m = m => passes[p].pc \in {"idle", "done"}
    /\ ContainersOf(m, "final") # {}
    /\ \A i \in ContainersOf(m, "final") :
          /\ dom[m].nodes[i].display = "block" /\ dom[m].nodes[i].iframe
          /\ dom[m].nodes[i].id \in DOMAIN ctxs /\ ctxs[dom[m].nodes[i].id].alive
    /\ \A i \in ContainersOf(m, "loading") : dom[m].nodes[i].display = "none"
    /\ \A i \in ContainersOf(m, "pre") :
          LET pre == dom[m].nodes[i]
              unit == IF variant = "main"
                      THEN MatchesMainSelector(ClassName(pre.frag)) /\ pre.frag.hasFm
                               /\ Trim(pre.frag.code) # <<>>
                      ELSE isDirectJavaScript(ClassName(pre.frag)) /\ Trim(pre.frag.code) # <<>>
          IN  unit => pre.marker \in {"true", "duplicate"}

\* C3: when processMessage runs again on a message whose code units have all succeeded
\* (the source unchanged, nothing cleaned up), it returns at once: no Execution Context
\* and no loading or output container is created.
C3_RerunCreatesNothing ==
    [][ \A m \in Msgs :
          (timers'[m] < timers[m] /\ chat[m].exists /\ AllSucceeded(m)) =>
              /\ ctxs' = ctxs /\ dom' = dom /\ nextId' = nextId
              /\ \A p \in PassIds : passes'[p] # passes[p] => passes'[p].pc = "done" ]_vars

\* A second pass over a fully succeeded message has returned
C3_Witness ==
    \E p \in PassIds :
        /\ passes[p].pc = "done" /\ passes[p].early /\ passes[p].m = 1
        /\ AllSucceeded(1) /\ hist.events = 1 /\ timers[1] = 0
        /\ Cardinality({c \in DOMAIN ctxs : ctxs[c].successes > 0}) = Cardinality(DOMAIN ctxs)

-----------------------------------------------------------------------------
(* Valid units without dependencies, frontmatter generation *)

InitSettle ==
    \E mes \in {<<uOk>>, <<uOk, uOk>>, <<uPlain, uOk>>} :
        InitWith("main", OnlyMessage(mes), Buttons(FALSE))

NextSettle ==
    \/ \E p \in PassIds, m \in Msgs : handleMessageRender_timeout(p, m)
    \/ \E p \in PassIds : processMessage_loop(p)
    \/ \E p \in PassIds, ok \in BOOLEAN : processMessage_fetched(p, ok)
    \/ \E c \in DOMAIN ctxs : Bootstrap_run(c)
    \/ \E c \in DOMAIN ctxs : Bootstrap_success(c)
    \/ \E c \in DOMAIN ctxs : Bootstrap_fallback(c)
    \/ Router_success

SpecSettle == InitSettle /\ [][NextSettle]_vars

\* Nothing is left to happen: no timeout or pass is pending, no message is undelivered,
\* and no frame has a load or a timer outstanding
Settled ==
    /\ \A m \in Msgs : timers[m] = 0
    /\ \A p \in PassIds : Free(p)
    /\ inbox = <<>> /\ cpu = 0
    /\ \A c \in DOMAIN ctxs :
          ctxs[c].alive => ctxs[c].phase = "running" /\ ~ctxs[c].n /\ ~ctxs[c].fb /\ ~ctxs[c].late

\* A fence of the frontmatter generation that is syntactically valid, names no library,
\* inserts a node into the mount element and does not throw
ValidPlainUnit(frag) ==
    /\ MatchesMainSelector(ClassName(frag)) /\ frag.hasFm /\ frag.libs = <<>>
    /\ SyntaxOK(frag.code)
    /\ Effect(Trim(frag.code)).appended /\ ~Effect(Trim(frag.code)).threw

\* The unit shown by the pre at position i of message m has reached Succeeded: it has
\* exactly one context, the context posted success, its loading indicator is hidden and
\* its output container revealed
Succeeded(m, i) ==
    LET cs == ContextsOf(<<"fence", dom[m].nodes[i].id>>) IN
    /\ Cardinality(cs) = 1
    /\ \A c \in cs :
          /\ ctxs[c].successes > 0
          /\ \A k \in 1..Len(dom[m].nodes) :
                dom[m].nodes[k].id = c =>
                    /\ dom[m].nodes[k].type = "loading" => dom[m].nodes[k].display = "none"
                    /\ dom[m].nodes[k].type = "final" => dom[m].nodes[k].display = "block"

\* C4: a valid direct-script unit without dependencies whose code inserts a node and
\* does not throw gets exactly one Execution Context, which reaches Succeeded: once
\* everything that was started has run to its end, the context has posted success, the
\* loading indicator is hidden and the output container is revealed.
C4_ValidUnitSucceeds ==
    Settled => \A m \in Msgs : dom[m].present =>
        \A i \in ContainersOf(m, "pre") :
            ValidPlainUnit(dom[m].nodes[i].frag) => Succeeded(m, i)

\* Two output containers of the document carry the same frame id
SharedFrameId ==
    \E m \in Msgs : \E i, j \in ContainersOf(m, "final") :
        i # j /\ dom[m].nodes[i].frameId = dom[m].nodes[j].frameId

\* With distinct frame ids every valid unit does succeed
C4_SucceedsUnlessShared == SharedFrameId \/ C4_ValidUnitSucceeds

-----------------------------------------------------------------------------
(* Library resolution and fetch failures *)

uUnknown == Fence(tagJavascript, TRUE, <<"nolib">>, <<Ch.A>>)
uSwapped == Fence(tagJavascript, TRUE, <<"p5", "nolib", "d3">>, <<Ch.T>>)

InitLibs ==
    \/ \E mes \in {<<uLibs>>, <<uUnknown, uThrow>>, <<uLibs, uThrow>>, <<uSwapped, uOk>>} :
          InitWith("main", OnlyMessage(mes), Buttons(FALSE))
    \/ \E mes \in {<<sOk, fEnt>>} : InitWith("p000", OnlyMessage(mes), Buttons(FALSE))

NextLibs ==
    \/ \E p \in PassIds, m \in Msgs : handleMessageRender_timeout(p, m)
    \/ \E p \in PassIds : processScriptTagsInHTML_step(p)
    \/ \E p \in PassIds, ok \in BOOLEAN : processScriptTagsInHTML_fetched(p, ok)
    \/ \E p \in PassIds : processMessage_loop(p)
    \/ \E p \in PassIds, ok \in BOOLEAN : processMessage_fetched(p, ok)
    \/ \E c \in DOMAIN ctxs : Bootstrap_run(c)
    \/ \E c \in DOMAIN ctxs : Bootstrap_success(c)
    \/ \E c \in DOMAIN ctxs : Bootstrap_fallback(c)
    \/ \E c \in DOMAIN ctxs : Bootstrap_timeout(c)
    \/ Router_error
    \/ Router_success

SpecLibs == InitLibs /\ [][NextLibs]_vars

\* The files of the aliases of a list that the registry knows, in the order of the list
IsKnown(alias) == \E i \in 1..Len(BUILT_IN_LIBRARIES) : BUILT_IN_LIBRARIES[i].alias = alias
FileOf(alias) ==
    BUILT_IN_LIBRARIES[CHOOSE i \in 1..Len(BUILT_IN_LIBRARIES) :
                          BUILT_IN_LIBRARIES[i].alias = alias].file
KnownFiles(aliases) ==
    LET known == SelectSeq(aliases, IsKnown) IN [k \in 1..Len(known) |-> FileOf(known[k])]
HasUnknown(aliases) == \E k \in 1..Len(aliases) : ~IsKnown(aliases[k])

PreOf(m, u) == dom[m].nodes[PosPre(dom[m].nodes, u)]

\* C5: an alias list with an unknown alias never makes its unit fail: the unknown
\* aliases are dropped and the context of the unit is given the sources of exactly the
\* known aliases, in the order requested; the unit's setup fails only when a fetch of a
\* known library fails.
C5_UnknownAliasesDropped ==
    variant = "main" =>
        /\ \A c \in DOMAIN ctxs :
              LET frag == PreOf(1, ctxs[c].src[2]).frag
              IN  ctxs[c].libs = KnownFiles(frag.libs)
        /\ \A p \in PassIds : FinishedPass(p, 1) =>
              \A i \in ContainersOf(1, "pre") :
                  LET pre == dom[1].nodes[i] IN
                  (HasUnknown(pre.frag.libs) /\ pre.frag.hasFm) =>
                      /\ KnownFiles(pre.frag.libs) = <<>> => <<"fence", pre.id>> \notin passes[p].failed
                      /\ <<"fence", pre.id>> \notin passes[p].failed
                             => ContextsOf(<<"fence", pre.id>>) # {}

\* The unit that asked for d3, an unknown alias and p5 runs with d3 and p5, in that order
C5_Witness ==
    variant = "main" /\ \E c \in DOMAIN ctxs :
        /\ PreOf(1, ctxs[c].src[2]).frag.libs = <<"d3", "nolib", "p5">>
        /\ ctxs[c].libs = <<"d3.v7.min.js", "p5.v1.4.0.min.js">>
        /\ ctxs[c].phase = "running" /\ ctxs[c].successes = 1

\* The unit whose Promise.all has just rejected, if this step is such a rejection
JustFailed(p) == passes'[p].failed \ passes[p].failed

\* C6: when the fetch of a required bundle of a unit fails, no Execution Context is
\* created for the unit (so nothing is injected, not even the bundles that did load),
\* no output container of the unit remains in the document, and the unit's loading
\* indicator shows the setup error.
C6_FetchFailureAllOrNothing ==
    [][ \A p \in PassIds : \A unit \in JustFailed(p) :
          /\ ctxs' = ctxs
          /\ ContextsOf(unit) = {}
          /\ LET m == passes[p].m
                 cur == passes[p].cur
                 mine(n) == IF unit[1] = "fence" THEN n.id = cur ELSE n.frameId = passes[p].frameId
             IN  /\ \A k \in 1..Len(dom'[m].nodes) :
                       dom'[m].nodes[k].type = "final" => ~mine(dom'[m].nodes[k])
                 /\ \A k \in 1..Len(dom'[m].nodes) :
                       (dom'[m].nodes[k].type = "loading" /\ mine(dom'[m].nodes[k]))
                           => dom'[m].nodes[k].content = "setup-error"
                 /\ \E k \in 1..Len(dom'[m].nodes) :
                       dom'[m].nodes[k].type = "loading"
                           /\ dom'[m].nodes[k].content = "setup-error" ]_vars

\* A unit whose fetch failed: no context, no output container, the setup error shown
C6_Witness ==
    \E p \in PassIds :
        /\ FinishedPass(p, 1) /\ passes[p].failed = {<<"fence", 1>>}
        /\ ContextsOf(<<"fence", 1>>) = {}
        /\ ContainersOf(1, "final") = {}
        /\ \E i \in ContainersOf(1, "loading") : dom[1].nodes[i].content = "setup-error"

\* C7: a fetch failure is fatal to its own unit only and never starts a repair: the
\* step in which the fetch of a unit fails invokes no attemptSelfHeal and leaves the
\* pass in its loop, at the next code block; no context exists for a unit whose fetch
\* failed, and every automatic attemptSelfHeal was caused by the execution error of a
\* context.
C7_FetchFailureLocal ==
    [][ /\ \A p \in PassIds : \A unit \in JustFailed(p) :
              /\ heals' = heals
              /\ unit[1] = "fence" =>
                    passes'[p].pc = "loop" /\ passes'[p].idx = passes[p].idx + 1
              /\ unit[1] = "script" =>
                    passes'[p].pc = "scripts" /\ passes'[p].sidx = passes[p].sidx + 1
        /\ \A p \in PassIds : \A unit \in passes'[p].failed :
              \A c \in DOMAIN ctxs' : ctxs'[c].src # unit
        /\ \A h \in 1..Len(heals') :
              heals'[h].auto =>
                  /\ heals'[h].from \in DOMAIN ctxs'
                  /\ ctxs'[heals'[h].from].execErrors > 0 ]_vars

\* After the fetch of the first unit failed, the second unit of the message ran in the
\* same pass, threw, and its report, not the failure, started the repair
C7_Witness ==
    \E p \in PassIds :
        /\ FinishedPass(p, 1) /\ passes[p].failed = {<<"fence", 1>>}
        /\ PreOf(1, 1).marker = "false"
        /\ \E c \in passes[p].created : ctxs[c].src = <<"fence", 2>> /\ ctxs[c].execErrors = 1
        /\ Len(heals) = 1 /\ heals[1].auto /\ heals[1].codeElement = 2
        /\ ctxs[heals[1].from].src = <<"fence", 2>>

-----------------------------------------------------------------------------
(* The Repair Loop, frontmatter generation *)

\* A fence whose tag only begins with the script language's name
uTagged == Fence(tagJavascript \o <<120>>, TRUE, <<>>, <<Ch.T>>)

InitHeal ==
    \E mes \in {<<uThrow>>, <<uThrow, uThrow>>, <<uTagged>>}, btn \in BOOLEAN :
        InitWith("main", OnlyMessage(mes), Buttons(btn))

NextHeal ==
    \/ \E p \in PassIds, m \in Msgs : handleMessageRender_timeout(p, m)
    \/ \E p \in PassIds : processMessage_loop(p)
    \/ \E p \in PassIds, ok \in BOOLEAN : processMessage_fetched(p, ok)
    \/ \E c \in DOMAIN ctxs : Bootstrap_run(c)
    \/ \E c \in DOMAIN ctxs : Bootstrap_success(c)
    \/ \E c \in DOMAIN ctxs : Bootstrap_fallback(c)
    \/ \E c \in DOMAIN ctxs : Bootstrap_timeout(c)
    \/ Router_error
    \/ Router_success
    \/ \E h \in 1..Len(heals) : \E resp \in Responses(TextOf(heals[h].originalCode)) :
          attemptSelfHeal_resume(h, resp)
    \/ \E m \in Msgs : onHealClick(m)

SpecHeal == InitHeal /\ [][NextHeal]_vars

\* C8: an attemptSelfHeal that starts while another one for the same message is still
\* awaiting the repair service returns at once: it sends no request (and so can change
\* nothing).
C8_OneRepairInFlight ==
    \A h \in 1..Len(heals) : heals[h].inFlight => heals[h].state = "returned"

\* On a message that carries a heal button the busy flag does keep a second repair out
C8_GuardedWhenButton ==
    \A h \in 1..Len(heals) :
        (heals[h].inFlight /\ heals[h].healButton) => heals[h].state = "returned"

Automatic == {h \in 1..Len(heals) : heals[h].auto}

\* C9 (as stated): one context causes at most one automatic attemptSelfHeal, and a
\* further automatic attemptSelfHeal for the same message is caused by a context of a
\* later rendering of the message.
C9_OncePerRendering ==
    \A h1, h2 \in Automatic :
        (h1 < h2 /\ heals[h1].m = heals[h2].m) =>
            /\ heals[h1].from # heals[h2].from
            /\ heals[h2].era > heals[h1].era

\* C9 (amended): a context posts at most one execution error and causes at most one
\* automatic attemptSelfHeal; every automatic attemptSelfHeal is caused by the execution
\* error of a context of its own; a further one for the same message needs the error of
\* another context, of the same rendering or of a later one.
C9_OncePerContext ==
    /\ \A c \in DOMAIN ctxs : ctxs[c].execErrors <= 1
    /\ \A h \in Automatic :
          heals[h].from \in DOMAIN ctxs /\ ctxs[heals[h].from].execErrors = 1
    /\ \A h1, h2 \in Automatic : heals[h1].from = heals[h2].from => h1 = h2

\* Two units of one rendering failed and each caused an automatic attemptSelfHeal
C9_Witness ==
    /\ Len(heals) = 2 /\ Automatic = {1, 2}
    /\ heals[1].m = heals[2].m /\ heals[1].era = heals[2].era
    /\ heals[1].from # heals[2].from

\* Two texts are equal once both are trimmed
SameTrimmed(a, b) ==
    /\ a.hasFm = b.hasFm /\ a.libs = b.libs
    /\ IF a.hasFm THEN TrimRight(a.code) = TrimRight(b.code) ELSE Trim(a.code) = Trim(b.code)

\* The answer given to invocation h makes it an aborted repair: the service failed, the
\* answer is empty or equal to the original, or no span of the message's raw source
\* holds the original text
Aborts(h, resp) ==
    LET orig == TextOf(heals[h].originalCode)
        mes == chat[heals[h].m].mes
    IN  \/ ~resp.ok
        \/ Trim(resp.text.code) = <<>> /\ ~resp.text.hasFm
        \/ SameTrimmed(resp.text, orig)
        \/ ~\E k \in 1..Len(mes) : SpanMatches(mes[k], orig)

Nodes(d) == [m \in Msgs |-> d[m].nodes]

\* C10: when attemptSelfHeal returns from an aborted repair (service failure, empty or
\* unchanged answer, span not located), the message's stored source is unchanged, none
\* of its rendered artifacts is cleared and the pipeline is not run again.
C10_AbortedRepairMutatesNothing ==
    [][ \A h \in 1..Len(heals) :
          ( /\ heals[h].state = "awaiting" /\ heals'[h].state # "awaiting"
            /\ Aborts(h, heals'[h].response[1]) )
          => /\ chat' = chat
             /\ Nodes(dom') = Nodes(dom)
             /\ ctxs' = ctxs /\ emberMaxHeights' = emberMaxHeights
             /\ timers' = timers /\ passes' = passes ]_vars

\* A repair whose answer differed from the original was aborted because the span could
\* not be located; the error is still shown and nothing is scheduled
C10_Witness ==
    \E h \in 1..Len(heals) :
        /\ heals[h].state = "failed" /\ heals[h].response[1].ok
        /\ ~SameTrimmed(heals[h].response[1].text, TextOf(heals[h].originalCode))
        /\ chat[1].mes = <<uTagged>>
        /\ \E i \in ContainersOf(1, "loading") : dom[1].nodes[i].content = "error"
        /\ timers[1] = 0 /\ hist.alerts = 1

-----------------------------------------------------------------------------
(* Aborted repairs and the notice to the user *)

\* An invocation that returned after the repair service answered without rewriting
\* the message: the response was unusable ("noop") or a step threw ("failed")
AbortedRepairs == {h \in 1..Len(heals) : heals[h].state \in {"noop", "failed"}}

\* C11: every aborted repair (span not found, response unchanged or empty) has shown
\* a notice to the user before attemptSelfHeal returned.
C11_AbortShowsNotice == \A h \in AbortedRepairs : heals[h].notice

\* What the code does: the aborts that go through the catch block show an alert
C11_ThrownAbortShowsNotice ==
    \A h \in AbortedRepairs : heals[h].notice <=> heals[h].state = "failed"

-----------------------------------------------------------------------------
(* Who writes the stored source of a message *)

\* A fence that calls ember.inject and then throws
uInject == Fence(tagJavascript, TRUE, <<>>, <<Ch.I, Ch.T>>)
\* The source an edit by the user stores
EditedSources == {<<uOk>>}

InitSource ==
    \/ InitWith("main", OnlyMessage(<<uInject>>), Buttons(TRUE))
    \/ InitWith("p000", OnlyMessage(<<sOk>>), Buttons(TRUE))

NextSource ==
    \/ \E p \in PassIds, m \in Msgs : handleMessageRender_timeout(p, m)
    \/ \E p \in PassIds : processScriptTagsInHTML_step(p)
    \/ \E p \in PassIds, ok \in BOOLEAN : processScriptTagsInHTML_fetched(p, ok)
    \/ \E p \in PassIds : processMessage_loop(p)
    \/ \E p \in PassIds, ok \in BOOLEAN : processMessage_fetched(p, ok)
    \/ \E c \in DOMAIN ctxs : Bootstrap_run(c)
    \/ \E c \in DOMAIN ctxs : Bootstrap_success(c)
    \/ \E f \in FramesIn(dom) : postMessage(ForeignMsg("ember-resize", f, "", 100))
    \/ Router_error
    \/ Router_success
    \/ Router_resize
    \/ Router_inject
    \/ \E h \in 1..Len(heals) : \E resp \in Responses(TextOf(heals[h].originalCode)) :
          attemptSelfHeal_resume(h, resp)
    \/ \E m \in Msgs : onMessageRendered(m)
    \/ \E m \in Msgs, mes \in EditedSources : onMessageEdited(m, mes)
    \/ processExistingMessages

SpecSource == InitSource /\ [][NextSource]_vars

\* The step completes a repair of message m: an invocation that was awaiting the
\* repair service has applied its answer
RepairApplied(m) ==
    \E h \in 1..Len(heals) :
        /\ heals[h].m = m /\ heals[h].state = "awaiting"
        /\ heals'[h].state = "applied"

\* The step is the host storing the source the user edited, followed by the
\* MESSAGE_EDITED listener: the stored source is exactly what the host put there
HostStoredEdit(m) ==
    \E mes \in EditedSources : onMessageEdited(m, mes) /\ chat'[m] = Msg(mes)

\* C12: only the Repair Loop rewrites a message's raw source: every step of the
\* extension that changes chat[m].mes completes a repair of m; processMessage, the
\* router's handlers, cleanup and the render/edit listeners leave every source as it is.
C12_OnlyRepairRewrites ==
    [][\A m \in Msgs : chat'[m] # chat[m] => RepairApplied(m) \/ HostStoredEdit(m)]_vars

\* A repaired message was re-rendered and processed again, its new context succeeded
\* and was resized, and the inject of the first context reached the chat context
C12_Witness ==
    /\ \E h \in 1..Len(heals) : heals[h].state = "applied"
    /\ chat[1].mes # <<uInject>>
    /\ hist.injectCalls >= 1
    /\ \E i \in ContainersOf(1, "final") :
          dom[1].nodes[i].display = "block" /\ dom[1].nodes[i].height > 0

-----------------------------------------------------------------------------
(* Frame ids *)

\* C13: the frameId of every Execution Context is unique among all contexts ever
\* created (ctxs keeps the contexts of removed iframes), two units of one pass and
\* contexts before and after a cleanup or re-render included.
C13_FrameIdsUnique ==
    \A c1, c2 \in DOMAIN ctxs : c1 # c2 => ctxs[c1].frameId # ctxs[c2].frameId

\* What the time-based suffix does give: contexts with the same frameId belong to the
\* same message and were created within the same reading of the clock
C13_SameIdSameMessage ==
    \A c1, c2 \in DOMAIN ctxs :
        ctxs[c1].frameId = ctxs[c2].frameId =>
            ctxs[c1].frameId.m = ctxs[c2].frameId.m /\ ctxs[c1].frameId.t <= now

-----------------------------------------------------------------------------
(* Messages of contexts whose containers were removed *)

\* A fence that calls ember.inject and then appends a node
uInjectOk == Fence(tagJavascript, TRUE, <<>>, <<Ch.I, Ch.A>>)

InitStale ==
    \E mes \in {<<uInject>>, <<uInjectOk>>} :
        InitWith("main", OnlyMessage(mes), Buttons(TRUE))

NextStale ==
    \/ \E p \in PassIds, m \in Msgs : handleMessageRender_timeout(p, m)
    \/ \E p \in PassIds : processMessage_loop(p)
    \/ \E p \in PassIds, ok \in BOOLEAN : processMessage_fetched(p, ok)
    \/ \E c \in DOMAIN ctxs : Bootstrap_run(c)
    \/ \E c \in DOMAIN ctxs : Bootstrap_success(c)
    \/ \E c \in DOMAIN ctxs : Bootstrap_resize(c, 100)
    \/ Router_error
    \/ Router_success
    \/ Router_resize
    \/ Router_inject
    \/ processExistingMessages

SpecStale == InitStale /\ [][NextStale]_vars

\* No loading indicator and no output container of the document carries the frameId
Stale(msg) ==
    /\ QueryContainer(dom, "loading", msg.frameId) = <<>>
    /\ QueryContainer(dom, "final", msg.frameId) = <<>>

\* The listener handles the oldest undelivered message in this step
RouterHandles(msg) == inbox # <<>> /\ msg = Head(inbox) /\ inbox' = Tail(inbox)

\* The step changes no UI state, starts no repair and calls no collaborator
RouterNoOp ==
    /\ dom' = dom /\ emberMaxHeights' = emberMaxHeights
    /\ heals' = heals /\ hist' = hist

\* C14: for every message type, a message whose frameId names a context whose
\* containers have been removed is dropped: the router changes no UI state, starts no
\* repair and makes no call to the chat-context collaborator.
C14_StaleDropped ==
    [][\A k \in 1..Len(inbox) :
          RouterHandles(inbox[k]) /\ Stale(inbox[k]) => RouterNoOp]_vars

\* What the container lookups do give: stale error, success and resize messages
\* are dropped
C14_StaleDroppedUnlessInject ==
    [][\A k \in 1..Len(inbox) :
          RouterHandles(inbox[k]) /\ Stale(inbox[k])
              /\ inbox[k].type # "ember-inject-js" => RouterNoOp]_vars

-----------------------------------------------------------------------------
(* Terminal states on the host *)

\* A fence that appends a node and then throws
uAppendThrow == Fence(tagJavascript, TRUE, <<>>, <<Ch.A, Ch.T>>)

InitSticky ==
    \E mes \in {<<uAppendThrow>>, <<uThrow>>, <<uOk>>}, btn \in BOOLEAN :
        InitWith("main", OnlyMessage(mes), Buttons(btn))

NextSticky ==
    \/ \E p \in PassIds, m \in Msgs : handleMessageRender_timeout(p, m)
    \/ \E p \in PassIds : processMessage_loop(p)
    \/ \E p \in PassIds, ok \in BOOLEAN : processMessage_fetched(p, ok)
    \/ \E c \in DOMAIN ctxs : Bootstrap_run(c)
    \/ \E c \in DOMAIN ctxs : Bootstrap_success(c)
    \/ \E c \in DOMAIN ctxs : Bootstrap_fallback(c)
    \/ \E c \in DOMAIN ctxs : Bootstrap_timeout(c)
    \/ Router_error
    \/ Router_success

SpecSticky == InitSticky /\ [][NextSticky]_vars

\* The UI shows that an error was handled for the frameId
ShowsFailed(frameId) ==
    LET lc == QueryContainer(dom, "loading", frameId)
    IN  lc # <<>> /\ dom[lc[1]].nodes[lc[2]].content = "error"

\* The UI shows that a success was handled for the frameId
ShowsSucceeded(frameId) ==
    LET lc == QueryContainer(dom, "loading", frameId)
        fc == QueryContainer(dom, "final", frameId)
    IN  /\ lc # <<>> /\ dom[lc[1]].nodes[lc[2]].display = "none"
        /\ fc # <<>> /\ dom[fc[1]].nodes[fc[2]].display = "block"

Terminal(msg) == msg.type \in {"ember-success", "ember-error"}

\* The elements of every message are as they were
SameElements == \A m \in Msgs : dom'[m].nodes = dom[m].nodes

\* C15: once the router has handled a success or an error for a context, a later
\* success or error message for the same context is a no-op: the loading indicator,
\* the shown error and the visibility of the output container stay as they are.
C15_TerminalSticky ==
    [][\A k \in 1..Len(inbox) :
          /\ RouterHandles(inbox[k]) /\ Terminal(inbox[k])
          /\ ShowsFailed(inbox[k].frameId) \/ ShowsSucceeded(inbox[k].frameId)
          => SameElements]_vars

-----------------------------------------------------------------------------
(* The sandbox document: where the user source ends up *)

MaxSrcLen == 2     \* lexical items in a user source

\* Lexical items a user source is put together from: the delimiters of the document
\* and of the template that builds it, and one plain statement
SourceItems ==
    { <<34>>,          \* "
      <<92>>,          \* \
      <<96>>,          \* `
      <<36, 123>>,     \* ${
      <<125>>,         \* }
      <<10>>,          \* line feed
      <<65>>,          \* a statement
      closeScript }

RECURSIVE Sources(_)
Sources(k) ==
    IF k = 0 THEN {<<>>}
    ELSE LET shorter == Sources(k - 1)
         IN  shorter \cup {s \o item : s \in shorter, item \in SourceItems}
UserSources == Sources(MaxSrcLen) \ {<<>>}

\* JSON.stringify of a string: the quote and the backslash get a backslash in front,
\* a line feed becomes \n, every other character of the alphabet stays as it is
RECURSIVE JsonEscape(_)
JsonEscape(s) ==
    IF s = <<>> THEN <<>>
    ELSE (IF Head(s) = 34 THEN <<92, 34>>
          ELSE IF Head(s) = 92 THEN <<92, 92>>
          ELSE IF Head(s) = 10 THEN <<92, 110>>
          ELSE <<Head(s)>>) \o JsonEscape(Tail(s))
JSONStringify(s) == <<34>> \o JsonEscape(s) \o <<34>>

\* The fixed text of the template, kept as single marks (no mark holds "</script"):
\*   tplOpen   : `<html><head>...</head><body><div id="root"></div><script>`
\*   tplBefore : the bootstrap code up to `const userCodeToRun = `
\*   tplAfter  : `; const rootElement = ... }catch(err){...}})();`
\*   tplEnd    : `</body></html>`
Tpl == [open |-> -1, before |-> -2, after |-> -3, end |-> -4]

\* iframeContent: the template literal with ${safeCodeString} substituted; the
\* template's own `<\/script>` is the text "</script>"
iframeContent(code) ==
    <<Tpl.open, Tpl.before>> \o JSONStringify(code) \o <<Tpl.after>> \o closeScript
        \o <<Tpl.end>>


\* The HTML tokenizer in script data: the element ends at the first "</script"
\* (any case) that is followed by white space, "/" or ">"; 0 when there is none
ScriptEnd(doc) ==
    LET ends == {i \in 1..(Len(doc) - 8) :
                    /\ [k \in 1..8 |-> Lower(doc[i + k - 1])] = SubSeq(closeScript, 1, 8)
                    /\ doc[i + 8] \in {9, 10, 12, 32, 47, 62}}
    IN  IF ends = {} THEN 0 ELSE First(ends)

\* The text the script element of the parsed document holds
ScriptData(doc) ==
    IF ScriptEnd(doc) = 0 THEN Tail(doc) ELSE SubSeq(doc, 2, ScriptEnd(doc) - 1)

\* What follows the script element's end tag and is parsed as markup
MarkupAfter(doc) ==
    IF ScriptEnd(doc) = 0 THEN <<>> ELSE SubSeq(doc, ScriptEnd(doc) + 9, Len(doc))

\* The script lexer on a string literal that opens at text[i]: the position of the
\* closing quote, or 0 when the line or the text ends first
RECURSIVE StringEnd(_, _)
StringEnd(text, i) ==
    IF i + 1 > Len(text) \/ text[i + 1] = 10 THEN 0
    ELSE IF text[i + 1] = 34 THEN i + 1
    ELSE IF text[i + 1] = 92 THEN (IF i + 2 > Len(text) THEN 0 ELSE StringEnd(text, i + 2))
    ELSE StringEnd(text, i + 1)

\* The value of the characters between the quotes of a string literal
RECURSIVE StringValue(_)
StringValue(s) ==
    IF s = <<>> THEN <<>>
    ELSE IF Head(s) = 92 /\ Len(s) >= 2
    THEN <<(IF s[2] = 110 THEN 10 ELSE s[2])>> \o StringValue(SubSeq(s, 3, Len(s)))
    ELSE <<Head(s)>> \o StringValue(Tail(s))

\* The browser parses the blob document of the iframe: the context gets the text of
\* its script element and the markup that follows it
Bootstrap_load(c) ==
    LET doc == iframeContent(ctxs[c].code)
    IN
    /\ cpu = 0
    /\ ctxs[c].alive /\ ctxs[c].phase = "loading"
    /\ ctxs' = [ctxs EXCEPT ![c] =
                  [script |-> ScriptData(doc), markup |-> MarkupAfter(doc)]
                      @@ [@ EXCEPT !.phase = "parsed"]]
    /\ UNCHANGED <<emberSettings, html, variant, now, chat, dom, inbox, emberMaxHeights, passes, cpu, timers,
                   heals, nextId, hist>>

InitSlot ==
    \E src \in UserSources :
        InitWith("main", OnlyMessage(<<Fence(tagJavascript, TRUE, <<>>, src)>>), Buttons(FALSE))

NextSlot ==
    \/ \E p \in PassIds, m \in Msgs : handleMessageRender_timeout(p, m)
    \/ \E p \in PassIds : processMessage_loop(p)
    \/ \E p \in PassIds, ok \in BOOLEAN : processMessage_fetched(p, ok)
    \/ \E c \in DOMAIN ctxs : Bootstrap_load(c)

SpecSlot == InitSlot /\ [][NextSlot]_vars

Parsed == {c \in DOMAIN ctxs : ctxs[c].phase = "parsed"}

\* The user source of context c is the value of one string literal of the script
\* element, which ends where the template ends it
InSlot(c) ==
    LET lit == JSONStringify(ctxs[c].code)
        script == ctxs[c].script
    IN  /\ script = <<Tpl.before>> \o lit \o <<Tpl.after>>
        /\ ctxs[c].markup = <<Tpl.end>>
        /\ StringEnd(script, 2) = 1 + Len(lit)
        /\ StringValue(SubSeq(script, 3, Len(lit))) = ctxs[c].code

\* C16: for every user source, the delimiters of the document included, the document
\* built by createSandboxedFrame holds the source only as the value of one string
\* literal; no part of it is parsed as markup or as bootstrap code.
C16_SourceStaysInSlot == \A c \in Parsed : InSlot(c)

\* What JSON.stringify does give: a source without the end tag of the script element
\* stays in its slot, whatever quotes, backslashes, backticks and ${ it holds
C16_InSlotUnlessEndTag ==
    \A c \in Parsed : ~Includes(ctxs[c].code, SubSeq(closeScript, 1, 8)) => InSlot(c)

-----------------------------------------------------------------------------
(* The failure boundary of a context *)

uLibThrow == Fence(tagJavascript, TRUE, <<"d3">>, <<Ch.T>>)
uLibOk    == Fence(tagJavascript, TRUE, <<"d3">>, <<Ch.A>>)

InitBoundary ==
    \E mes \in {<<uLibThrow>>, <<uLibOk>>, <<uThrow>>, <<uAppendThrow>>} :
        InitWith("main", OnlyMessage(mes), Buttons(TRUE))

NextBoundary ==
    \/ \E p \in PassIds, m \in Msgs : handleMessageRender_timeout(p, m)
    \/ \E p \in PassIds : processMessage_loop(p)
    \/ \E p \in PassIds, ok \in BOOLEAN : processMessage_fetched(p, ok)
    \/ \E c \in DOMAIN ctxs, libraryThrows \in BOOLEAN : Bootstrap_exec(c, libraryThrows)
    \/ \E c \in DOMAIN ctxs : Bootstrap_success(c)
    \/ \E c \in DOMAIN ctxs : Bootstrap_fallback(c)
    \/ \E c \in DOMAIN ctxs : Bootstrap_timeout(c)
    \/ Router_error
    \/ Router_success

SpecBoundary == InitBoundary /\ [][NextBoundary]_vars

\* The contexts whose bootstrap script has run
Ran == {c \in DOMAIN ctxs : ctxs[c].phase = "running"}

\* Exceptions raised while the libraries and the user code of context c ran
Raised(c) == ctxs[c].libErrors + (IF Effect(ctxs[c].code).threw THEN 1 ELSE 0)

\* C17: every exception raised while a context runs its dependency scripts or its
\* user code is caught inside the context and reported as exactly one message that
\* starts with 'Ember Execution Error:'.
C17_EveryExceptionReported == \A c \in Ran : ctxs[c].execErrors = Raised(c)

\* What the try/catch does give: an exception of the user code's invocation is
\* reported by exactly one execution-error message, and no other message of that
\* kind is posted
C17_UserExceptionReported ==
    \A c \in Ran : ctxs[c].execErrors = (IF Effect(ctxs[c].code).threw THEN 1 ELSE 0)

-----------------------------------------------------------------------------
(* Code that produces no DOM *)

uInjectOnly == Fence(tagJavascript, TRUE, <<>>, <<Ch.I>>)
uNothing    == Fence(tagJavascript, TRUE, <<>>, <<Ch.B>>)

InitQuiet ==
    \E mes \in {<<uInjectOnly>>, <<uNothing>>, <<uInjectOnly, uNothing>>, <<uThrow>>, <<uOk>>} :
        InitWith("main", OnlyMessage(mes), Buttons(FALSE))

NextQuiet ==
    \/ \E p \in PassIds, m \in Msgs : handleMessageRender_timeout(p, m)
    \/ \E p \in PassIds : processMessage_loop(p)
    \/ \E p \in PassIds, ok \in BOOLEAN : processMessage_fetched(p, ok)
    \/ \E c \in DOMAIN ctxs : Bootstrap_run(c)
    \/ \E c \in DOMAIN ctxs : Bootstrap_success(c)
    \/ \E c \in DOMAIN ctxs : Bootstrap_fallback(c)
    \/ \E c \in DOMAIN ctxs : Bootstrap_timeout(c)
    \/ Router_error
    \/ Router_success
    \/ Router_inject

CtxIds == 1..MaxIds
Loaded(c) == c \in DOMAIN ctxs

\* Synchronous code runs on and awaited fetches settle; the document of a live
\* iframe loads and its timers fire; the host's event loop dispatches every posted
\* message
FairQuiet ==
    /\ \A p \in PassIds : WF_vars(processMessage_loop(p))
    /\ \A p \in PassIds : WF_vars(\E ok \in BOOLEAN : processMessage_fetched(p, ok))
    /\ \A c \in CtxIds : WF_vars(Loaded(c) /\ Bootstrap_run(c))
    /\ \A c \in CtxIds : WF_vars(Loaded(c) /\ Bootstrap_fallback(c))
    /\ \A c \in CtxIds : WF_vars(Loaded(c) /\ Bootstrap_success(c))
    /\ \A c \in CtxIds : WF_vars(Loaded(c) /\ Bootstrap_timeout(c))
    /\ WF_vars(Router_error) /\ WF_vars(Router_success) /\ WF_vars(Router_inject)

SpecQuiet == InitQuiet /\ [][NextQuiet]_vars /\ FairQuiet

\* The user code of context c returns without throwing and inserts no node into root
Quiet(c) ==
    LET eff == Effect(ctxs[c].code)
    IN  ~eff.threw /\ ~eff.appended /\ ~eff.late

\* A no-visible-output warning of context c is among the posted messages
WarningPosted(c) ==
    \E k \in 1..Len(inbox) :
        inbox[k].type = "ember-error" /\ inbox[k].from = c
            /\ inbox[k].message.prefix = prefixWarning

PendingUnits(p) ==
    IF passes[p].pc = "fenceFetch" THEN {<<"fence", passes[p].units[passes[p].idx]>>}
    ELSE IF passes[p].pc = "scriptFetch" THEN {<<"script", passes[p].sidx>>}
    ELSE {}

\* The library files a context's unit asked for, in the order it asked for them: the
\* known aliases of the frontmatter, or the whole registry where every unit gets it
RequestedFiles(c) ==
    IF variant = "main" THEN KnownFiles(PreOf(1, ctxs[c].src[2]).frag.libs)
    ELSE KnownFiles(AllLibs)

sBad    == Script(NoSrc, <<Ch.hash>>)
fOpen   == Fence(tagJavascript, FALSE, <<>>, <<Ch.A, Ch.quot>>)
fThrows == Fence(tagJavascript, FALSE, <<>>, <<Ch.T>>)

InitReject ==
    \E mes \in {<<fBad>>, <<sBad>>, <<fBad, fThrows>>, <<sBad, fOpen, fOk>>, <<fThrows, fOpen>>,
                  <<sOk, fBad>>},
       btn \in BOOLEAN :
        InitWith("p000", OnlyMessage(mes), Buttons(btn))

NextReject ==
    \/ \E p \in PassIds, m \in Msgs : handleMessageRender_timeout(p, m)
    \/ \E p \in PassIds : processScriptTagsInHTML_step(p)
    \/ \E p \in PassIds, ok \in BOOLEAN : processScriptTagsInHTML_fetched(p, ok)
    \/ \E p \in PassIds : processMessage_loop(p)
    \/ \E p \in PassIds, ok \in BOOLEAN : processMessage_fetched(p, ok)
    \/ \E c \in DOMAIN ctxs : Bootstrap_run(c)
    \/ \E c \in DOMAIN ctxs : Bootstrap_success(c)
    \/ Router_error
    \/ Router_success

SpecReject == InitReject /\ [][NextReject]_vars

\* The units of message 1 whose text new Function does not accept and that no earlier
\* unit of the message has entered into the ledger
Malformed ==
    LET occ == Occurrences(1)
    IN  {occ[k].unit : k \in {j \in 1..Len(occ) :
            ~occ[j].valid /\ \A i \in 1..(j - 1) : occ[i].key # occ[j].key}}

\* The units a pass has gone past: scripts before its position, fences before its
\* position in the loop, everything once it has finished its pass over message 1
Passed(p) ==
    LET ps == passes[p]
    IN  IF ps.pc = "scripts" THEN {<<"script", k>> : k \in 1..(ps.sidx - 1)}
        ELSE IF ps.pc = "loop"
        THEN {unit \in Malformed : unit[1] = "script"}
                \cup {<<"fence", ps.units[k]>> : k \in 1..(Min(ps.idx, Len(ps.units) + 1) - 1)}
        ELSE IF FinishedPass(p, 1) THEN Malformed
        ELSE {}

InitManual ==
    \E mes \in {<<fBad>>, <<fBad, fOk>>, <<fOk, fOpen>>, <<fThrows, fBad>>} :
        InitWith("p000", OnlyMessage(mes), Buttons(TRUE))

NextManual ==
    \/ \E p \in PassIds, m \in Msgs : handleMessageRender_timeout(p, m)
    \/ \E p \in PassIds : processScriptTagsInHTML_step(p)
    \/ \E p \in PassIds : processMessage_loop(p)
    \/ \E p \in PassIds, ok \in BOOLEAN : processMessage_fetched(p, ok)
    \/ \E c \in DOMAIN ctxs : Bootstrap_run(c)
    \/ \E c \in DOMAIN ctxs : Bootstrap_success(c)
    \/ Router_error
    \/ Router_success
    \/ \E m \in Msgs : onHealClick(m)

SpecManual == InitManual /\ [][NextManual]_vars

\* The fences of message 1 that a pass has turned away at the syntax pre-check
RejectedFences == {unit \in Malformed : unit[1] = "fence" /\ \E p \in PassIds : unit \in passes[p].rejected}

\* C21: once a pass has turned a unit away at the syntax pre-check, a click on the heal
\* button of its message starts a repair attempt on that unit: the click records a new
\* manual invocation of attemptSelfHeal whose code element is the pre of the unit.
C21_ClickRepairsRejected ==
    [][ \A unit \in RejectedFences :
          onHealClick(1) =>
              /\ Len(heals') = Len(heals) + 1
              /\ ~heals'[Len(heals')].auto
              /\ heals'[Len(heals')].codeElement = unit[2] ]_vars

\* What the click does instead: it never hands a rejected unit to attemptSelfHeal; with
\* no pre marked 'true' in the message it only raises the alert
C21_ClickSkipsRejected ==
    [][ onHealClick(1) =>
          /\ \A h \in 1..Len(heals') : <<"fence", heals'[h].codeElement>> \notin RejectedFences
          /\ MarkedTrue(dom, 1) = {} => heals' = heals /\ hist'.alerts = hist.alerts + 1 ]_vars


\* ---------------------------------------------------------------------------
\* The no-visible-output warning (main.js 538 and 678-689)
\* ---------------------------------------------------------------------------

InitWarn ==
    \/ \E mes \in {<<uThrow>>, <<uThrow, uOk>>}, btn \in BOOLEAN :
          InitWith("main", OnlyMessage(mes), Buttons(btn))
    \/ \E btn \in BOOLEAN : InitWith("p000", OnlyMessage(<<fThrows>>), Buttons(btn))

NextWarn ==
    \/ \E p \in PassIds, m \in Msgs : handleMessageRender_timeout(p, m)
    \/ \E p \in PassIds : processScriptTagsInHTML_step(p)
    \/ \E p \in PassIds : processMessage_loop(p)
    \/ \E p \in PassIds, ok \in BOOLEAN : processMessage_fetched(p, ok)
    \/ \E c \in DOMAIN ctxs : Bootstrap_run(c)
    \/ \E c \in DOMAIN ctxs : Bootstrap_success(c)
    \/ \E c \in DOMAIN ctxs : Bootstrap_fallback(c)
    \/ \E c \in DOMAIN ctxs : Bootstrap_timeout(c)
    \/ Router_error
    \/ Router_success

SpecWarn == InitWarn /\ [][NextWarn]_vars

\* C22: the no-visible-output warning never starts a repair: the step in which the
\* router handles the warning of a context invokes no attemptSelfHeal, whatever code
\* elements the message displays, so every automatic invocation was caused by a context
\* that posted an execution error and there is at most one per context.
C22_WarningNeverRepairs ==
    [][ /\ (Router_error /\ Head(inbox).message.prefix = prefixWarning) => heals' = heals
        /\ \A h \in 1..Len(heals') : heals'[h].auto =>
              /\ ctxs'[heals'[h].from].execErrors = 1
              /\ \A g \in 1..Len(heals') :
                    (heals'[g].auto /\ heals'[g].from = heals'[h].from) => g = h ]_vars

\* The 7 s timer of a context whose code threw has fired, the router has shown its
\* warning next to a code element still marked 'true', and the only automatic repair of
\* the context is the one its execution error started
C22_Witness ==
    \E c \in DOMAIN ctxs :
        /\ ctxs[c].phase = "running" /\ ~ctxs[c].d /\ ~ctxs[c].o /\ ~ctxs[c].fb
        /\ inbox = <<>>
        /\ QueryContainer(dom, "loading", ctxs[c].frameId) # <<>>
        /\ MarkedTrue(dom, 1) # {}
        /\ Cardinality({h \in Automatic : heals[h].from = c}) = 1


\* ---------------------------------------------------------------------------
\* window.ember.inject (main.js 520-534)
\* ---------------------------------------------------------------------------

\* What user code may pass to inject: no object, or an object whose properties are
\* strings, numbers, booleans or missing
OptionValues ==
    {NoInjection} \cup
    {Options(content, id, depth, ephemeral) :
        content \in {Str("text"), Str(""), Num("1"), Undefined},
        id \in {Str("memo"), Num("7"), Undefined},
        depth \in {Num("2"), Str("2"), Undefined},
        ephemeral \in {Bool("true"), Str("yes"), Undefined}}

InitInject ==
    \E mes \in {<<uOk>>, <<uInjectOk>>} : InitWith("main", OnlyMessage(mes), Buttons(TRUE))

NextInject ==
    \/ \E p \in PassIds, m \in Msgs : handleMessageRender_timeout(p, m)
    \/ \E p \in PassIds : processMessage_loop(p)
    \/ \E p \in PassIds, ok \in BOOLEAN : processMessage_fetched(p, ok)
    \/ \E c \in DOMAIN ctxs : Bootstrap_run(c)
    \/ \E c \in DOMAIN ctxs : Bootstrap_success(c)
    \/ \E c \in DOMAIN ctxs, options \in OptionValues : ember_inject(c, options)
    \/ Router_error
    \/ Router_success
    \/ Router_inject

SpecInject == InitInject /\ [][NextInject]_vars

\* C23: a call of ember.inject(options) posts exactly one message. It is an inject
\* message if and only if options.content is a string, and then its payload carries
\* that content, the id given if it is a string and 'ember_js_block' otherwise, the
\* depth given if it is a number and 0 otherwise, the ephemeral flag given if it is a
\* boolean and false otherwise; with any other content the message is an error report
\* and no inject message is posted.
C23_InjectPayload ==
    [][ \A c \in DOMAIN ctxs, options \in OptionValues :
          ember_inject(c, options) =>
              LET isString == options.given /\ options.content.type = "string"
                  posted == SubSeq(inbox', Len(inbox) + 1, Len(inbox'))
              IN  /\ Len(posted) = 1
                  /\ posted[1].frameId = ctxs[c].frameId
                  /\ posted[1].type = "ember-inject-js" <=> isString
                  /\ isString =>
                        LET injection == posted[1].injection
                        IN  /\ injection.content = options.content
                            /\ injection.id = IF options.id.type = "string" THEN options.id
                                              ELSE Str("ember_js_block")
                            /\ injection.depth = IF options.depth.type = "number"
                                                 THEN options.depth ELSE Num("0")
                            /\ injection.ephemeral = IF options.ephemeral.type = "boolean"
                                                     THEN options.ephemeral ELSE Bool("false")
                  /\ ~isString =>
                        /\ posted[1].type = "ember-error"
                        /\ posted[1].message.prefix = prefixInternal ]_vars

\* A call with a string content, a numeric id, a textual depth and a boolean ephemeral
\* flag has posted its message: the id and the depth are the defaults, the flag is kept
C23_Witness ==
    \E k \in 1..Len(inbox) :
        /\ inbox[k].type = "ember-inject-js" /\ inbox[k].from \in DOMAIN ctxs
        /\ inbox[k].injection =
              [given |-> TRUE, id |-> Str("ember_js_block"), depth |-> Num("0"),
               content |-> Str(""), ephemeral |-> Bool("true")]


\* ---------------------------------------------------------------------------
\* The inject branch of the router (main.js 703-713)
\* ---------------------------------------------------------------------------

\* window.parent.postMessage({type: "ember-inject-js", frameId, injection}, "*") written
\* out by user code, or by another window, instead of a call of ember.inject
ForeignInject(frameId, injection) ==
    PostedMsg("ember-inject-js", frameId, [prefix |-> "", rest |-> <<>>], 0, injection, 0)

\* Payloads: no injection property, or an object whose properties are strings, numbers
\* or missing
PayloadValues ==
    {NoInjection} \cup
    {Options(content, id, depth, ephemeral) :
        content \in {Str("text"), Num("1"), Undefined},
        id \in {Str("memo"), Num("7"), Undefined},
        depth \in {Num("2"), Undefined},
        ephemeral \in {Bool("true"), Undefined}}

InitBestEffort ==
    \E mes \in {<<uOk>>, <<uInjectOk>>} : InitWith("main", OnlyMessage(mes), Buttons(TRUE))

NextBestEffort ==
    \/ \E p \in PassIds, m \in Msgs : handleMessageRender_timeout(p, m)
    \/ \E p \in PassIds : processMessage_loop(p)
    \/ \E p \in PassIds, ok \in BOOLEAN : processMessage_fetched(p, ok)
    \/ \E c \in DOMAIN ctxs : Bootstrap_run(c)
    \/ \E c \in DOMAIN ctxs : Bootstrap_success(c)
    \/ \E f \in FramesIn(dom), injection \in PayloadValues :
          postMessage(ForeignInject(f, injection))
    \/ Router_success
    \/ \E ex \in BOOLEAN : Router_injectJs(ex)

SpecBestEffort == InitBestEffort /\ [][NextBestEffort]_vars

\* The step handles an inject message
HandlesInject == \E ex \in BOOLEAN : Router_injectJs(ex)

\* The listener only logs: no exception leaves it and nothing the user sees changes
OnlyLogs ==
    /\ hist'.uncaught = hist.uncaught
    /\ dom' = dom /\ emberMaxHeights' = emberMaxHeights /\ heals' = heals /\ chat' = chat

\* C24: for every inject message the router calls the chat-context collaborator at
\* most once, and only when injection.content is a string; whatever the payload (a
\* missing or non-string id included) and whether or not the collaborator fails, the
\* handler raises no uncaught exception and changes no loading indicator, error panel,
\* output container or recorded height.
C24_InjectBestEffort ==
    [][ HandlesInject =>
          /\ hist'.injectCalls \in {hist.injectCalls, hist.injectCalls + 1}
          /\ hist'.injectCalls # hist.injectCalls =>
                Head(inbox).injection.given /\ Head(inbox).injection.content.type = "string"
          /\ OnlyLogs ]_vars

\* What holds: the same for the payloads whose id is a string, which are all the
\* payloads ember.inject builds
C24_BestEffortWithStringId ==
    [][ (HandlesInject /\ Head(inbox).injection.id.type = "string") =>
          /\ hist'.injectCalls \in {hist.injectCalls, hist.injectCalls + 1}
          /\ hist'.injectCalls # hist.injectCalls =>
                Head(inbox).injection.given /\ Head(inbox).injection.content.type = "string"
          /\ OnlyLogs ]_vars


\* ---------------------------------------------------------------------------
\* Entity decoding before the syntax pre-check (part_000 1004-1019 and 1033-1042)
\* ---------------------------------------------------------------------------

MaxItems == 3     \* lexical items in the text of a fence

\* The texts of a fence: up to MaxItems items, each a statement, a string literal that
\* spells an entity ("&quot;", '&quot;', "&lt;", '&#39;') or a quote that opens a literal
CodeItems ==
    {<<Ch.A>>, <<Ch.B>>, <<Ch.quot>>,
     <<Ch.quot>> \o entQuot \o <<Ch.quot>>, <<Ch.apos>> \o entQuot \o <<Ch.apos>>,
     <<Ch.quot>> \o entLt \o <<Ch.quot>>, <<Ch.apos>> \o ent39 \o <<Ch.apos>>}
RECURSIVE TextsOf(_)
TextsOf(n) ==
    IF n = 0 THEN {<<>>}
    ELSE TextsOf(n - 1) \cup {t \o item : t \in TextsOf(n - 1) \ {<<>>}, item \in CodeItems}
                        \cup CodeItems
FenceTexts == TextsOf(MaxItems) \ {<<>>}

InitRound ==
    \E text \in FenceTexts :
        InitWith("p000", OnlyMessage(<<Fence(tagJavascript, FALSE, <<>>, text)>>),
                 Buttons(FALSE))

NextRound ==
    \/ \E p \in PassIds, m \in Msgs : handleMessageRender_timeout(p, m)
    \/ \E p \in PassIds : processScriptTagsInHTML_step(p)
    \/ \E p \in PassIds : processMessage_loop(p)
    \/ \E p \in PassIds, ok \in BOOLEAN : processMessage_fetched(p, ok)
    \/ \E c \in DOMAIN ctxs : Bootstrap_run(c)
    \/ \E c \in DOMAIN ctxs : Bootstrap_success(c)
    \/ Router_success

SpecRound == InitRound /\ [][NextRound]_vars

\* The text of the fence of a unit is accepted by new Function as it stands
ValidAsWritten(unit) == SyntaxOK(Trim(InnerText(PreOf(1, unit[2]).frag)))

\* C25: a fence classified as direct script whose text is syntactically valid is not
\* rejected: the source the pass extracts from it, after entity decoding, passes the
\* syntax pre-check.
C25_ValidNotRejected ==
    \A p \in PassIds : \A unit \in passes[p].rejected :
        (unit[1] = "fence" /\ isDirectJavaScript(ClassName(PreOf(1, unit[2]).frag)))
            => ~ValidAsWritten(unit)

\* What holds: a valid text that decoding leaves as it is, is not rejected
C25_ValidUndecodedNotRejected ==
    \A p \in PassIds : \A unit \in passes[p].rejected :
        LET text == Trim(InnerText(PreOf(1, unit[2]).frag))
        IN  (unit[1] = "fence" /\ DecodeEntities(text) = text) => ~ValidAsWritten(unit)


\* ---------------------------------------------------------------------------
\* The HTML processing module: replaceHtmlBlocks (part_004 11-83)
\* ---------------------------------------------------------------------------

MaxTextLen == 4     \* lexical items of an input text

\* A text is a sequence of items: a run of plain characters, an opening tag <n ...>, a
\* closing tag </n>, a self-closing tag <n .../>, or the characters
\* <!--EMBER_HTML_PLACEHOLDER_i-->
Item(k, n, i)  == [k |-> k, n |-> n, i |-> i]
Plain(n)       == Item("text", n, 0)
OpenTag(n)     == Item("open", n, 0)
CloseTag(n)    == Item("close", n, 0)
SelfClosing(n) == Item("self", n, 0)
\* `<!--EMBER_HTML_PLACEHOLDER_${htmlParts.length - 1}-->`
Placeholder(i) == Item("placeholder", "", i)

\* /^(?:area|base|br|col|embed|hr|img|input|link|meta|source|track|wbr)$/i
VoidNames == {"area", "base", "br", "col", "embed", "hr", "img", "input", "link", "meta",
              "source", "track", "wbr"}

\* /<([a-zA-Z][a-zA-Z0-9]*)\b[^>]*>/ matches an opening or a self-closing tag
IsTag(item) == item.k \in {"open", "self"}

\* findMatchingClosingTag(text, startPos, tagName): the position of the closing tag that
\* brings openCount to 0, or 0 when the text runs out of closing tags first
RECURSIVE findMatchingClosingTag(_, _, _, _)
findMatchingClosingTag(text, pos, tagName, openCount) ==
    IF openCount = 0 THEN pos - 1
    ELSE LET opens  == {j \in pos..Len(text) : IsTag(text[j]) /\ text[j].n = tagName}
             closes == {j \in pos..Len(text) : text[j].k = "close" /\ text[j].n = tagName}
         IN  IF closes = {} THEN 0
             ELSE IF opens = {} \/ First(closes) < First(opens)
             THEN findMatchingClosingTag(text, First(closes) + 1, tagName, openCount - 1)
             ELSE findMatchingClosingTag(text, First(opens) + 1, tagName, openCount + 1)

\* The while loop of replaceHtmlBlocks from position i on
RECURSIVE ReplaceFrom(_, _, _)
ReplaceFrom(result, i, htmlParts) ==
    LET tags == {j \in i..Len(result) : IsTag(result[j])}
    IN  IF tags = {} THEN [result |-> result, htmlParts |-> htmlParts]
        ELSE LET tagStart == First(tags)
                 tag == result[tagStart]
                 mark == <<Placeholder(Len(htmlParts))>>
             IN  IF tag.k = "self" \/ tag.n \in VoidNames
                 THEN ReplaceFrom(SubSeq(result, 1, tagStart - 1) \o mark
                                     \o SubSeq(result, tagStart + 1, Len(result)),
                                  tagStart + 1, Append(htmlParts, <<tag>>))
                 ELSE LET closingPos == findMatchingClosingTag(result, tagStart + 1, tag.n, 1)
                      IN  IF closingPos > 0
                          THEN ReplaceFrom(SubSeq(result, 1, tagStart - 1) \o mark
                                              \o SubSeq(result, closingPos + 1, Len(result)),
                                           tagStart + 1,
                                           Append(htmlParts, SubSeq(result, tagStart, closingPos)))
                          ELSE ReplaceFrom(result, tagStart + 1, htmlParts)

\* replaceHtmlBlocks(text, htmlParts) called with an empty array
replaceHtmlBlocks(text) == ReplaceFrom(text, 1, <<>>)

\* result.replace(/<!--EMBER_HTML_PLACEHOLDER_(\d+)-->/g, (_, index) =>
\*     htmlParts[parseInt(index, 10)]): an index outside the array gives undefined, which
\* replace writes as the text "undefined"
RECURSIVE Restore(_, _)
Restore(result, htmlParts) ==
    IF result = <<>> THEN <<>>
    ELSE (IF Head(result).k = "placeholder"
          THEN IF Head(result).i < Len(htmlParts) THEN htmlParts[Head(result).i + 1]
               ELSE <<Plain("undefined")>>
          ELSE <<Head(result)>>)
         \o Restore(Tail(result), htmlParts)

HtmlItems ==
    {Plain("a"), OpenTag("div"), CloseTag("div"), OpenTag("p"), CloseTag("p"),
     OpenTag("br"), SelfClosing("img"), SelfClosing("div"), Placeholder(0)}
RECURSIVE HtmlTexts(_)
HtmlTexts(n) ==
    IF n = 0 THEN {<<>>}
    ELSE HtmlTexts(n - 1) \cup {Append(t, item) : t \in HtmlTexts(n - 1), item \in HtmlItems}

\* No message is shown; the module has been called with a text
InitHtml ==
    /\ variant = "p000"
    /\ now = 0
    /\ chat = [m \in Msgs |-> NoMsg]
    /\ dom = [m \in Msgs |-> Absent]
    /\ ctxs = <<>>
    /\ inbox = <<>>
    /\ emberMaxHeights = <<>>
    /\ passes = [p \in PassIds |-> IdlePass]
    /\ cpu = 0
    /\ timers = [m \in Msgs |-> 0]
    /\ heals = <<>>
    /\ nextId = 1
    /\ hist = NoHist
    /\ emberSettings = DefaultSettings
    /\ \E text \in HtmlTexts(MaxTextLen) :
          html = [pc |-> "called", text |-> text, result |-> <<>>, htmlParts |-> <<>>]

\* const result = replaceHtmlBlocks(text, htmlParts) returns
testHtmlProcessing ==
    /\ html.pc = "called"
    /\ LET r == replaceHtmlBlocks(html.text)
       IN  html' = [html EXCEPT !.pc = "returned", !.result = r.result,
                                !.htmlParts = r.htmlParts]
    /\ UNCHANGED <<emberSettings, variant, now, chat, dom, ctxs, inbox, emberMaxHeights,
                   passes, cpu, timers, heals, nextId, hist>>


NextHtml == testHtmlProcessing

SpecHtml == InitHtml /\ [][NextHtml]_vars

\* The placeholders of a text
PlaceholdersIn(text) == {j \in 1..Len(text) : text[j].k = "placeholder"}

\* C26: for every input text, every placeholder in the text replaceHtmlBlocks returns
\* carries a valid index of htmlParts, and putting the part stored at its index in the
\* place of each placeholder gives back exactly the input text.
C26_PlaceholderRoundTrip ==
    html.pc = "returned" =>
        /\ \A j \in PlaceholdersIn(html.result) : html.result[j].i < Len(html.htmlParts)
        /\ Restore(html.result, html.htmlParts) = html.text

\* What holds: the same for the texts that do not spell a placeholder themselves
C26_RoundTripWithoutMarker ==
    (html.pc = "returned" /\ PlaceholdersIn(html.text) = {}) =>
        /\ \A j \in PlaceholdersIn(html.result) : html.result[j].i < Len(html.htmlParts)
        /\ Restore(html.result, html.htmlParts) = html.text


\* ---------------------------------------------------------------------------
\* Classification of fences (part_000 543-613)
\* ---------------------------------------------------------------------------

tagJson   == <<106, 115, 111, 110>>                 \* "json"
tagPython == <<112, 121, 116, 104, 111, 110>>       \* "python"

\* Fences with the tags javascript, js, json, css and python over texts with no signal,
\* one signal and two signals
ClassifiedFences ==
    {Fence(lang, FALSE, <<>>, text) :
        lang \in {tagJavascript, tagJs, tagJson, tagCss, tagPython},
        text \in {<<Ch.B>>, <<Ch.A>>, <<Ch.K, Ch.A>>, <<Ch.K, Ch.O, Ch.A>>, <<Ch.K, Ch.lbrace, Ch.O>>}}

InitClassify ==
    \E frag \in ClassifiedFences : InitWith("p000", OnlyMessage(<<frag>>), Buttons(FALSE))

NextClassify ==
    \/ \E p \in PassIds, m \in Msgs : handleMessageRender_timeout(p, m)
    \/ \E p \in PassIds : processScriptTagsInHTML_step(p)
    \/ \E p \in PassIds : processMessage_loop(p)
    \/ \E p \in PassIds, ok \in BOOLEAN : processMessage_fetched(p, ok)
    \/ \E c \in DOMAIN ctxs : Bootstrap_run(c)
    \/ \E c \in DOMAIN ctxs : Bootstrap_success(c)
    \/ \E c \in DOMAIN ctxs : Bootstrap_fallback(c)
    \/ Router_success

SpecClassify == InitClassify /\ [][NextClassify]_vars

\* The language tag of a fence names the script language
NamesScript(frag) == frag.lang \in {tagJavascript, tagJs}

\* C27: a fence is treated as direct script if and only if its language tag names the
\* script language; a fence whose tag names another language and whose text shows
\* fewer than 2 of the 7 signals is not executable: no context is built for it and its
\* pre is left unmarked.
C27_ClassifiedByTag ==
    \A i \in ContainersOf(1, "pre") :
        LET pre == dom[1].nodes[i]
        IN  (~NamesScript(pre.frag) /\ contentBasedScore(Trim(InnerText(pre.frag))) < 2)
                => /\ ContextsOf(<<"fence", pre.id>>) = {}
                   /\ pre.marker = ""

\* What holds: the same with 'the class name contains javascript, lang-js or js' in the
\* place of 'the tag names the script language'
C27_ClassifiedBySubstring ==
    \A i \in ContainersOf(1, "pre") :
        LET pre == dom[1].nodes[i]
        IN  (~isDirectJavaScript(ClassName(pre.frag))
                /\ contentBasedScore(Trim(InnerText(pre.frag))) < 2)
                => /\ ContextsOf(<<"fence", pre.id>>) = {}
                   /\ pre.marker = ""


\* ---------------------------------------------------------------------------
\* A successful repair and the re-run it starts (main.js 477-495, 779-786, 868-872)
\* ---------------------------------------------------------------------------

\* A fence of the frontmatter generation that loads one library and inserts a node
uLibAfter == Fence(tagJavascript, TRUE, <<"d3">>, <<Ch.A>>)

InitRepair ==
    \E mes \in {<<uThrow>>, <<uThrow, uOk>>, <<uThrow, uLibAfter>>} :
        InitWith("main", OnlyMessage(mes), Buttons(TRUE))

NextRepair ==
    \/ \E p \in PassIds, m \in Msgs : handleMessageRender_timeout(p, m)
    \/ \E p \in PassIds : processMessage_loop(p)
    \/ \E p \in PassIds, ok \in BOOLEAN : processMessage_fetched(p, ok)
    \/ \E c \in DOMAIN ctxs : Bootstrap_run(c)
    \/ \E c \in DOMAIN ctxs : Bootstrap_success(c)
    \/ Router_error
    \/ Router_success
    \/ \E h \in 1..Len(heals) : \E resp \in Responses(TextOf(heals[h].originalCode)) :
          attemptSelfHeal_resume(h, resp)

SpecRepair == InitRepair /\ [][NextRepair]_vars

\* The contexts of message m whose iframe is in the document
LiveContexts(m) == {c \in DOMAIN ctxs : ctxs[c].alive /\ ctxs[c].frameId.m = m}

\* The code units of the rendered message m whose set-up did not fail: the pre elements
\* processMessage takes up (selector, frontmatter, non-empty code) and has not marked
\* "false"
UnitsShown(m) ==
    {i \in ContainersOf(m, "pre") :
        LET pre == dom[m].nodes[i]
        IN  /\ MatchesMainSelector(ClassName(pre.frag)) /\ pre.frag.hasFm
            /\ Trim(InnerText(pre.frag)) # <<>>
            /\ pre.marker # "false"}

\* A repair was applied to message m and shown (the message text element was found)
Repaired(m) ==
    \E h \in 1..Len(heals) : heals[h].m = m /\ heals[h].state = "applied" /\ ~heals[h].notice

\* No timeout and no pass of message m is pending
ReRunSettled(m) ==
    /\ timers[m] = 0 /\ cpu = 0
    /\ \A p \in PassIds : passes[p].m = m => Free(p)

\* The step in which a repair of m is applied and shown: the persisted source has the
\* span replaced, the document shows the new source and nothing else (no container, no
\* marker, no context of m alive), the re-run is scheduled and has not begun
AppliedInOrder(m) ==
    /\ chat'[m].mes # chat[m].mes
    /\ dom'[m].nodes = messageFormatting(chat'[m].mes)
    /\ LiveContexts(m)' = {}
    /\ timers'[m] > timers[m]
    /\ \A p \in PassIds : passes'[p].m = m /\ ~Free(p)' => passes'[p].detached

InitTarget ==
    \E mes \in {<<uOk, uThrow>>, <<uThrow, uOk>>} :
        InitWith("main", OnlyMessage(mes), Buttons(TRUE))

NextTarget ==
    \/ \E p \in PassIds, m \in Msgs : handleMessageRender_timeout(p, m)
    \/ \E p \in PassIds : processMessage_loop(p)
    \/ \E p \in PassIds, ok \in BOOLEAN : processMessage_fetched(p, ok)
    \/ \E c \in DOMAIN ctxs : Bootstrap_run(c)
    \/ \E c \in DOMAIN ctxs : Bootstrap_success(c)
    \/ Router_error
    \/ Router_success
    \/ \E h \in 1..Len(heals) : \E resp \in Responses(TextOf(heals[h].originalCode)) :
          attemptSelfHeal_resume(h, resp)

SpecTarget == InitTarget /\ [][NextTarget]_vars

\* The invocations of attemptSelfHeal the router made for an error report
AutoRepairs == {h \in 1..Len(heals) : heals[h].auto /\ heals[h].from \in DOMAIN ctxs}

\* C29: the repair the router starts for an execution-error report is a repair of the
\* unit of the reporting context: the code element handed to attemptSelfHeal is that
\* unit's, so the original code sent to the repair service is the code that failed, and
\* the span replaced in the message source is the fence of that unit.
C29_RepairsFailingUnit ==
    /\ [](\A h \in AutoRepairs :
            /\ ctxs[heals[h].from].src = <<"fence", heals[h].codeElement>>
            /\ Trim(InnerText(heals[h].originalCode)) = ctxs[heals[h].from].code)
    /\ [][\A h \in AutoRepairs :
            heals[h].state = "awaiting" /\ heals'[h].state = "applied" =>
                \E k \in 1..Len(chat[1].mes) :
                    /\ Trim(InnerText(chat[1].mes[k])) = ctxs[heals[h].from].code
                    /\ chat'[1].mes = ReplaceSpan(chat[1].mes, k, TextOf(chat[1].mes[k]),
                                                  TrimText(heals'[h].response[1].text))]_vars

\* What holds: the code element handed over is the first one of the message that is
\* marked "true", whichever context reported
C29_RepairsFirstMarked ==
    [][\A h \in 1..Len(heals') :
          h > Len(heals) /\ heals'[h].auto =>
              /\ MarkedTrue(dom, heals'[h].m) # {}
              /\ heals'[h].codeElement =
                    dom[heals'[h].m].nodes[First(MarkedTrue(dom, heals'[h].m))].id]_vars


\* ---------------------------------------------------------------------------
\* Two passes on one message that overlap (main.js 572-629, part_000 942-970, 682-718)
\* ---------------------------------------------------------------------------

InitOverlap ==
    \/ \E mes \in {<<uLibAfter, uOk>>, <<uOk, uLibAfter>>} :
          InitWith("main", OnlyMessage(mes), Buttons(FALSE))
    \/ \E mes \in {<<sOk>>, <<fOk>>} :
          InitWith("p000", OnlyMessage(mes), Buttons(FALSE))

NextOverlap ==
    \/ \E p \in PassIds, m \in Msgs : handleMessageRender_timeout(p, m)
    \/ \E p \in PassIds : processScriptTagsInHTML_step(p)
    \/ \E p \in PassIds, ok \in BOOLEAN : processScriptTagsInHTML_fetched(p, ok)
    \/ \E p \in PassIds : processMessage_loop(p)
    \/ \E p \in PassIds, ok \in BOOLEAN : processMessage_fetched(p, ok)
    \/ \E c \in DOMAIN ctxs : Bootstrap_run(c)
    \/ \E c \in DOMAIN ctxs : Bootstrap_success(c)
    \/ Router_success
    \/ \E m \in Msgs : onMessageRendered(m)

SpecOverlap == InitOverlap /\ [][NextOverlap]_vars

\* The loading containers of message m that show the spinner or a report of its context
\* (the setup-error containers carry no frameId)
Indicators(m) ==
    Positions(dom[m].nodes, LAMBDA n : n.type = "loading" /\ n.content # "setup-error")

\* The unit a loading container of message m belongs to: for a script tag the unit of
\* the context created with it, for a fence the pre it was inserted after
UnitOfIndicator(m, j) ==
    LET nodes == dom[m].nodes
    IN  IF nodes[j].frameId.kind = "script" THEN ctxs[nodes[j].id].src
        ELSE LET before == {i \in 1..(j - 1) : nodes[i].type = "pre"}
                 i == CHOOSE k \in before : \A l \in before : l <= k
             IN  <<"fence", nodes[i].id>>

\* C30: whatever the interleaving of two passes on one message that overlap (the
\* second begins while the first awaits its libraries), each code unit of the message
\* has at most one context and at most one loading indicator.
C30_OverlapOnePerUnit ==
    \A m \in Msgs :
        /\ \A c1, c2 \in LiveContexts(m) : ctxs[c1].src = ctxs[c2].src => c1 = c2
        /\ \A j1, j2 \in Indicators(m) :
              UnitOfIndicator(m, j1) = UnitOfIndicator(m, j2) => j1 = j2

\* What holds: the same for the units that are fences, whose pre carries the marker
C30_OverlapOnePerFence ==
    \A m \in Msgs :
        /\ \A c1, c2 \in LiveContexts(m) :
              ctxs[c1].src[1] = "fence" /\ ctxs[c1].src = ctxs[c2].src => c1 = c2
        /\ \A j1, j2 \in Indicators(m) :
              /\ UnitOfIndicator(m, j1)[1] = "fence"
              /\ UnitOfIndicator(m, j1) = UnitOfIndicator(m, j2)
              => j1 = j2


\* ---------------------------------------------------------------------------
\* Terminal states inside the context (main.js 536-567)
\* ---------------------------------------------------------------------------

\* The lifecycle messages the step puts into the host's queue
Posted == IF Len(inbox') > Len(inbox)
          THEN {inbox'[k] : k \in (Len(inbox) + 1)..Len(inbox')} ELSE {}

\* A success, an execution error or the no-visible-output warning of context c
Lifecycle(msg, c) == msg.from = c /\ msg.type \in {"ember-success", "ember-error"}

\* C31: a context that has posted an execution error posts no further lifecycle
\* message: no success (from a node inserted before the throw, or from the 1000 ms
\* timer) and no no-visible-output warning.
C31_FailedIsTerminal ==
    [][\A c \in DOMAIN ctxs :
          ctxs[c].execErrors >= 1 => \A msg \in Posted : ~Lifecycle(msg, c)]_vars

\* What holds: after the error the 1000 ms timer is not armed and no second execution
\* error is posted
C31_FailedOnce ==
    /\ [](\A c \in DOMAIN ctxs : ctxs[c].execErrors >= 1 => ~ctxs[c].fb)
    /\ [][\A c \in DOMAIN ctxs :
            ctxs[c].execErrors >= 1 =>
                \A msg \in Posted : Lifecycle(msg, c) => msg.type = "ember-success"
                                        \/ msg.message.prefix = prefixWarning]_vars


\* ---------------------------------------------------------------------------
\* After the no-visible-output warning (main.js 536-546, 678-693)
\* ---------------------------------------------------------------------------

\* A fence whose code schedules a node insertion for later and then throws
uLateThrow == Fence(tagJavascript, TRUE, <<>>, <<Ch.L, Ch.T>>)

InitSoft ==
    \E mes \in {<<uLateThrow>>, <<uThrow>>}, btn \in BOOLEAN :
        InitWith("main", OnlyMessage(mes), Buttons(btn))

NextSoft ==
    \/ \E p \in PassIds, m \in Msgs : handleMessageRender_timeout(p, m)
    \/ \E p \in PassIds : processMessage_loop(p)
    \/ \E p \in PassIds, ok \in BOOLEAN : processMessage_fetched(p, ok)
    \/ \E c \in DOMAIN ctxs : Bootstrap_run(c)
    \/ \E c \in DOMAIN ctxs : Bootstrap_timeout(c)
    \/ \E c \in DOMAIN ctxs : Bootstrap_lateInsert(c)
    \/ \E c \in DOMAIN ctxs : Bootstrap_success(c)
    \/ Router_error
    \/ Router_success

\* The timers of a live iframe fire and the host's event loop dispatches every posted
\* message; when a scheduled insertion happens is up to the user code
FairSoft ==
    /\ \A p \in PassIds : WF_vars(processMessage_loop(p))
    /\ \A p \in PassIds : WF_vars(\E ok \in BOOLEAN : processMessage_fetched(p, ok))
    /\ \A c \in CtxIds : WF_vars(Loaded(c) /\ Bootstrap_run(c))
    /\ \A c \in CtxIds : WF_vars(Loaded(c) /\ Bootstrap_success(c))
    /\ \A c \in CtxIds : WF_vars(Loaded(c) /\ Bootstrap_timeout(c))
    /\ WF_vars(Router_error) /\ WF_vars(Router_success)

SpecSoft == InitSoft /\ [][NextSoft]_vars /\ FairSoft

\* Context c has posted the warning and a node was inserted into root afterwards (a
\* node inserted before the warning would have set the completion flag, and the
\* warning is posted only while the flag is unset)
InsertedAfterWarning(c) ==
    Loaded(c) /\ ctxs[c].alive /\ ctxs[c].warnings = 1 /\ ctxs[c].hasChild

\* C32: after a context has posted the no-visible-output warning, a node inserted into
\* the mount element still makes the context post success, and the router then hides
\* the loading container that shows the warning and reveals the output container.
C32_WarningNotTerminal ==
    \A c \in CtxIds :
        /\ InsertedAfterWarning(c) ~> (Loaded(c) /\ ctxs[c].successes = 1)
        /\ InsertedAfterWarning(c) ~> (Loaded(c) /\ ShowsSucceeded(ctxs[c].frameId))

\* The warning was shown by the router, the node was inserted after it, and the
\* success that followed replaced the warning by the output
C32_Witness ==
    \E c \in DOMAIN ctxs :
        /\ InsertedAfterWarning(c) /\ ctxs[c].successes = 1
        /\ inbox = <<>>
        /\ ShowsSucceeded(ctxs[c].frameId)


\* ---------------------------------------------------------------------------
\* The busy flag of a repair attempt (main.js 438-503)
\* ---------------------------------------------------------------------------

InitBusy ==
    \E btn \in BOOLEAN : InitWith("main", OnlyMessage(<<uThrow>>), Buttons(btn))

NextBusy ==
    \/ \E p \in PassIds, m \in Msgs : handleMessageRender_timeout(p, m)
    \/ \E p \in PassIds : processMessage_loop(p)
    \/ \E p \in PassIds, ok \in BOOLEAN : processMessage_fetched(p, ok)
    \/ \E c \in DOMAIN ctxs : Bootstrap_run(c)
    \/ \E c \in DOMAIN ctxs : Bootstrap_timeout(c)
    \/ Router_error
    \/ \E h \in 1..Len(heals) : \E resp \in Responses(TextOf(heals[h].originalCode)) :
          \E renderThrows \in BOOLEAN : attemptSelfHeal_settle(h, resp, renderThrows)
    \/ \E m \in Msgs : onHealClick(m)

HealIds == 1..MaxHeals

\* The request to the repair service settles (it resolves or rejects), and the host's
\* synchronous code runs on
FairBusy ==
    /\ \A p \in PassIds : WF_vars(processMessage_loop(p))
    /\ \A p \in PassIds : WF_vars(\E ok \in BOOLEAN : processMessage_fetched(p, ok))
    /\ \A h \in HealIds :
          WF_vars(h <= Len(heals) /\
                  \E resp \in Responses(TextOf(heals[h].originalCode)) :
                      \E renderThrows \in BOOLEAN : attemptSelfHeal_settle(h, resp, renderThrows))

SpecBusy == InitBusy /\ [][NextBusy]_vars /\ FairBusy

\* Invocation h has set the busy flag of its message and awaits the repair service
HoldsFlag(h) == h <= Len(heals) /\ heals[h].state = "awaiting" /\ heals[h].healButton

\* C33: an attempt that sets the busy flag of its message clears it when it ends,
\* whatever its outcome (applied, unchanged or empty answer, span not found, failure of
\* the service, exception while the message is rendered again); the flag is set only
\* while an attempt is awaiting, so no later attempt is blocked forever.
C33_BusyFlagCleared ==
    /\ \A h \in HealIds :
          HoldsFlag(h) ~> (h <= Len(heals) /\ heals[h].state # "awaiting"
                              /\ ~dom[heals[h].m].spin)
    /\ [](\A m \in Msgs : dom[m].spin => \E h \in Awaiting(m) : heals[h].healButton)
    /\ [][\A h \in HealIds :
            HoldsFlag(h) /\ heals'[h].state # "awaiting" => ~dom'[heals[h].m].spin]_vars

\* An attempt that set the flag ended in the catch block after the source was
\* replaced (rendering the repaired message threw): the notice was shown and the flag
\* is clear
C33_Witness ==
    /\ Len(heals) >= 1
    /\ heals[1].state = "failed" /\ heals[1].notice /\ heals[1].healButton
    /\ chat[1].mes # <<uThrow>>
    /\ ~dom[1].spin

-----------------------------------------------------------------------------
(* The fallbacks of one processMessage pass *)

mDiv    == Markup(<<60, 100, 105, 118, 62>>)          \* <div>
mButton == Markup(<<60, 98, 117, 116, 116, 111, 110, 62>>)    \* <button>
mBold   == Markup(<<60, 98, 62>>)               \* <b>

InitGate ==
    \E mes \in {<<mDiv>>, <<mButton>>, <<mBold>>, <<uOk>>, <<uOk, mDiv>>, <<uPlain, mButton>>},
       user \in BOOLEAN, direct \in BOOLEAN, mode \in {"off", "responses", "both"},
       inputs \in BOOLEAN :
        /\ variant = "main"
        /\ now = 0
        /\ chat = [m \in Msgs |-> IF m = 1 THEN (IF user THEN UserMsg(mes) ELSE Msg(mes))
                                  ELSE NoMsg]
        /\ dom = [m \in Msgs |-> IF m = 1 THEN Shown(mes, FALSE) ELSE Absent]
        /\ ctxs = <<>>
        /\ inbox = <<>>
        /\ emberMaxHeights = <<>>
        /\ passes = [p \in PassIds |-> IdlePass]
        /\ cpu = 0
        /\ timers = [m \in Msgs |-> IF m = 1 THEN 1 ELSE 0]
        /\ heals = <<>>
        /\ nextId = 1
        /\ hist = NoHist
        /\ html = NoHtml
        /\ emberSettings = [directHtmlEnabled |-> direct, directHtmlProcessingMode |-> mode,
                            clickableInputsEnabled |-> inputs]

NextGate ==
    \/ \E m \in Msgs : onMessageRendered(m)
    \/ \E p \in PassIds, m \in Msgs : handleMessageRender_timeout(p, m)
    \/ \E p \in PassIds : processMessage_loop(p)
    \/ \E p \in PassIds, ok \in BOOLEAN : processMessage_fetched(p, ok)
    \/ \E m \in Msgs : onRunHtmlClick(m)
    \/ \E c \in DOMAIN ctxs : Bootstrap_run(c)
    \/ \E c \in DOMAIN ctxs : Bootstrap_success(c)
    \/ Router_success

SpecGate == InitGate /\ [][NextGate]_vars

\* The pass p returns in this step from the statements after the code-block loop
ReturnsFromFallbacks(p) ==
    /\ passes[p].pc = "loop" /\ passes'[p].pc = "done"
    /\ passes'[p].generic \/ passes'[p].clickable

\* C34: in one processMessage pass the raw HTML is rendered and the clickable elements are
\* bound only if no code unit was processed or found processed in that pass; the
\* clickable elements are bound only if the message was not identified as complex HTML
\* and holds no sandbox frame and no raw-HTML frame; and a pass applies at most one of
\* sandboxed code, raw-HTML frame and clickable elements.
C34_FallbackGating ==
    /\ [][\A p \in PassIds : ReturnsFromFallbacks(p) =>
            /\ ~passes[p].processedByEmberJs
            /\ passes[p].created = {}
            /\ passes'[p].clickable =>
                  /\ ~passes'[p].complex
                  /\ ~HasFrame(dom[passes[p].m])
                  /\ ~HasFrame(dom'[passes[p].m])]_vars
    /\ [](\A p \in PassIds :
            /\ ~(passes[p].generic /\ passes[p].clickable)
            /\ passes[p].created # {} => ~passes[p].generic /\ ~passes[p].clickable)

\* A pass that processed no code unit has bound the clickable button of a message whose
\* raw HTML was not identified as complex
C34_Witness ==
    \E p \in PassIds :
        /\ passes[p].pc = "done" /\ passes[p].clickable
        /\ \E i \in 1..Len(dom[1].nodes) : dom[1].nodes[i].marker = "clickable"

-----------------------------------------------------------------------------
(* cleanupEmberElements of one message beside another *)

BothMessages(mes) == [m \in Msgs |-> Msg(mes)]

InitClean == InitWith("main", BothMessages(<<uOk>>), Buttons(FALSE))

NextClean ==
    \/ \E p \in PassIds, m \in Msgs : handleMessageRender_timeout(p, m)
    \/ \E p \in PassIds : processMessage_loop(p)
    \/ \E p \in PassIds, ok \in BOOLEAN : processMessage_fetched(p, ok)
    \/ \E c \in DOMAIN ctxs : Bootstrap_run(c)
    \/ \E c \in DOMAIN ctxs : Bootstrap_success(c)
    \/ \E c \in DOMAIN ctxs : Bootstrap_resize(c, 100)
    \/ Router_success
    \/ Router_resize
    \/ \E m \in Msgs, mes \in EditedSources : onMessageEdited(m, mes)

SpecClean == InitClean /\ [][NextClean]_vars

\* The rendering state of message m in document d with height records emh
Rendering(d, emh, m) ==
    [nodes |-> d[m].nodes,
     heights |-> [f \in {g \in DOMAIN emh : g.m = m} |-> emh[f]]]

\* Message m has no container, no indicator, no marked or hidden code block and no
\* recorded height
Bare(d, emh, m) ==
    /\ \A i \in 1..Len(d[m].nodes) :
          /\ d[m].nodes[i].type \notin {"loading", "final", "generic"}
          /\ d[m].nodes[i].marker = "" /\ d[m].nodes[i].display = ""
    /\ ~d[m].runHtmlButton
    /\ \A g \in DOMAIN emh : g.m # m

\* C35: cleanupEmberElements(m) removes every output container and loading indicator of
\* m, un-hides and un-marks every processed code block of m and deletes every recorded
\* height of m; the containers, markers and heights of every other message are unchanged.
C35_CleanupExact ==
    \A m \in Msgs :
        LET c == cleanupEmberElements(dom, ctxs, emberMaxHeights, m)
        IN  /\ Bare(c.dom, c.emh, m)
            /\ \A k \in Msgs \ {m} :
                  /\ c.dom[k] = dom[k]
                  /\ Rendering(c.dom, c.emh, k) = Rendering(dom, emberMaxHeights, k)
            /\ \A x \in DOMAIN ctxs : ctxs[x].frameId.m # m => c.ctxs[x] = ctxs[x]

\* Both messages show an output container with a recorded height beside a marked code
\* block, so that the clean-up of either has something to remove and something to keep
C35_Witness ==
    \A m \in Msgs :
        /\ \E g \in DOMAIN emberMaxHeights : g.m = m
        /\ \E i \in 1..Len(dom[m].nodes) : dom[m].nodes[i].type = "final"
        /\ \E i \in 1..Len(dom[m].nodes) : dom[m].nodes[i].marker = "true"

-----------------------------------------------------------------------------
(* processScriptTagsInHTML and the script tags it skips *)

libJs == <<97, 46, 106, 115>>      \* "a.js"
ScriptTags ==
    {Script(NoSrc, <<Ch.A>>), Script(NoSrc, <<>>), Script(NoSrc, <<Ch.sp>>),
     Script(Src(libJs), <<>>), Script(Src(libJs), <<Ch.A>>), Script(Src(<<>>), <<Ch.B>>),
     Script(Src(<<>>), <<>>)}

InitSkip ==
    \E s1 \in ScriptTags, s2 \in ScriptTags :
        InitWith("p000", OnlyMessage(<<s1, s2>>), Buttons(FALSE))

NextSkip ==
    \/ \E p \in PassIds, m \in Msgs : handleMessageRender_timeout(p, m)
    \/ \E p \in PassIds : processScriptTagsInHTML_step(p)
    \/ \E p \in PassIds, ok \in BOOLEAN : processScriptTagsInHTML_fetched(p, ok)
    \/ \E p \in PassIds : processMessage_loop(p)
    \/ \E c \in DOMAIN ctxs : Bootstrap_run(c)
    \/ \E c \in DOMAIN ctxs : Bootstrap_success(c)
    \/ Router_success

SpecSkip == InitSkip /\ [][NextSkip]_vars

\* The script tag of message 1 a context was created for
TagOf(c) == SelectSeq(chat[1].mes, LAMBDA f : f.kind = "script")[ctxs[c].src[2]]

\* An activation reports processed scripts only if it created a context for a script tag
ReportsOnlyCreated ==
    \A p \in PassIds :
        passes[p].processedAnyScripts =>
            \E c \in passes[p].created : ctxs[c].src[1] = "script"

\* C37: processScriptTagsInHTML creates no Execution Context for a script tag that has a
\* src attribute or whose inline content is empty, and it reports that it processed
\* scripts only if it created at least one context.
C37_SrcAndEmptySkipped ==
    /\ \A c \in DOMAIN ctxs :
          ctxs[c].src[1] = "script" =>
              ~HasSrcAttribute(TagOf(c)) /\ Trim(TagOf(c).code) # <<>>
    /\ ReportsOnlyCreated

\* The same for the script tags whose src attribute has a value
C37_NamedSrcAndEmptySkipped ==
    /\ \A c \in DOMAIN ctxs :
          ctxs[c].src[1] = "script" =>
              /\ ~(HasSrcAttribute(TagOf(c)) /\ TagOf(c).src.val # <<>>)
              /\ Trim(TagOf(c).code) # <<>>
    /\ ReportsOnlyCreated

-----------------------------------------------------------------------------
(* Script tags of the raw source and the markup fence that holds the same scripts *)

scriptA == <<60, 115, 99, 114, 105, 112, 116, 62, 65, 60, 47, 115, 99, 114, 105, 112, 116, 62>>                     \* <script>A</script>
scriptB == <<60, 115, 99, 114, 105, 112, 116, 62, 66, 60, 47, 115, 99, 114, 105, 112, 116, 62>>                     \* <script>B</script>
hOne == Fence(tagHtml, FALSE, <<>>, scriptA)
hTwo == Fence(tagHtml, FALSE, <<>>, scriptA \o <<10>> \o scriptB)

InitFence ==
    \E mes \in {<<hOne>>, <<hTwo>>, <<Script(NoSrc, <<Ch.A>>), hOne>>,
                <<Script(NoSrc, <<Ch.A>>), Script(NoSrc, <<Ch.B>>), hTwo>>} :
        InitWith("p000", OnlyMessage(mes), Buttons(FALSE))

NextFence ==
    \/ \E p \in PassIds, m \in Msgs : handleMessageRender_timeout(p, m)
    \/ \E p \in PassIds : processScriptTagsInHTML_step(p)
    \/ \E p \in PassIds, ok \in BOOLEAN : processScriptTagsInHTML_fetched(p, ok)
    \/ \E p \in PassIds : processMessage_loop(p)
    \/ \E p \in PassIds, ok \in BOOLEAN : processMessage_fetched(p, ok)
    \/ \E c \in DOMAIN ctxs : Bootstrap_run(c)
    \/ \E c \in DOMAIN ctxs : Bootstrap_success(c)
    \/ Router_success

SpecFence == InitFence /\ [][NextFence]_vars

\* The activation p has run script tags of the raw source directly
RanScriptTags(p) == \E c \in passes[p].created : ctxs[c].src[1] = "script"

\* The code blocks of markup of message m that hold k script tags or more
MarkupWithScripts(m, k) ==
    {i \in 1..Len(dom[m].nodes) :
        /\ dom[m].nodes[i].type = "pre"
        /\ Includes(ClassName(dom[m].nodes[i].frag), tagHtml)
        /\ Len(ScriptMatches(dom[m].nodes[i].frag.code)) >= k}

\* No context of activation p runs the code block at position i of message m, and the
\* block is hidden once p has returned
NotRunAgain(p, m, i) ==
    /\ \A c \in passes[p].created : ctxs[c].src # <<"fence", dom[m].nodes[i].id>>
    /\ passes[p].pc = "done" => dom[m].nodes[i].display = "none"

\* C36: when an activation has run the script tags of the raw source directly, a markup
\* fence of the message that holds the same scripts is hidden and not run again,
\* whatever the number of script tags in the fence.
C36_FenceHiddenNotRunAgain ==
    \A p \in PassIds :
        RanScriptTags(p) =>
            \A i \in MarkupWithScripts(passes[p].m, 1) : NotRunAgain(p, passes[p].m, i)

\* The same for the fences that hold one script tag
C36_OneScriptFenceNotRunAgain ==
    \A p \in PassIds :
        RanScriptTags(p) =>
            \A i \in MarkupWithScripts(passes[p].m, 1) \ MarkupWithScripts(passes[p].m, 2) :
                NotRunAgain(p, passes[p].m, i)

-----------------------------------------------------------------------------
(* The HTML processing module: extractPreservableContent, restorePreservableContent *)

MaxSegments == 5      \* pieces an input text is put together from

\* One backtick, a line break, `<!--EMBER_CODE_BLOCK_${i}-->`, `<!--EMBER_INLINE_CODE_${i}-->`
Tick == Item("tick", "", 0)
LineBreak == Item("nl", "", 0)
CodePlaceholder(i) == Item("code", "", i)
InlinePlaceholder(i) == Item("inline", "", i)

TicksAt(text, i, n) == i + n - 1 <= Len(text) /\ \A j \in i..(i + n - 1) : text[j] = Tick

\* result.replace(/(```[\s\S]*?```)/g, match => { blocks.codeBlocks.push(match);
\*     return `<!--EMBER_CODE_BLOCK_${blocks.codeBlocks.length - 1}-->` }) from item i on
RECURSIVE ExtractFences(_, _, _)
ExtractFences(text, i, codeBlocks) ==
    IF i > Len(text) THEN [result |-> text, blocks |-> codeBlocks]
    ELSE LET ends == {k \in (i + 3)..Len(text) : TicksAt(text, k, 3)}
             k == First(ends)
         IN  IF ~TicksAt(text, i, 3) \/ ends = {} THEN ExtractFences(text, i + 1, codeBlocks)
             ELSE ExtractFences(SubSeq(text, 1, i - 1) \o <<CodePlaceholder(Len(codeBlocks))>>
                                   \o SubSeq(text, k + 3, Len(text)),
                                i + 1, Append(codeBlocks, SubSeq(text, i, k + 2)))

\* result.replace(/(`[^`\n]*?`)/g, match => { blocks.preservedRegions.push(match);
\*     return `<!--EMBER_INLINE_CODE_${blocks.preservedRegions.length - 1}-->` })
RECURSIVE ExtractInline(_, _, _)
ExtractInline(text, i, preservedRegions) ==
    IF i > Len(text) THEN [result |-> text, blocks |-> preservedRegions]
    ELSE LET ends == {k \in (i + 1)..Len(text) : text[k] = Tick}
             k == First(ends)
         IN  IF text[i] # Tick \/ ends = {} THEN ExtractInline(text, i + 1, preservedRegions)
             ELSE IF \E j \in (i + 1)..(k - 1) : text[j] = LineBreak
             THEN ExtractInline(text, i + 1, preservedRegions)
             ELSE ExtractInline(SubSeq(text, 1, i - 1)
                                   \o <<InlinePlaceholder(Len(preservedRegions))>>
                                   \o SubSeq(text, k + 1, Len(text)),
                                i + 1, Append(preservedRegions, SubSeq(text, i, k)))

\* extractPreservableContent(text): { processedText, blocks }
extractPreservableContent(text) ==
    LET fenced == ExtractFences(text, 1, <<>>)
        inline == ExtractInline(fenced.result, 1, <<>>)
        blocks == replaceHtmlBlocks(inline.result)
    IN  [processedText |-> blocks.result,
         blocks |-> [codeBlocks |-> fenced.blocks, preservedRegions |-> inline.blocks,
                     htmlBlocks |-> blocks.htmlParts]]

\* result.replace(/<!--EMBER_..._(\d+)-->/g, (_, index) => parts[parseInt(index, 10)] || _)
RECURSIVE RestoreKind(_, _, _)
RestoreKind(result, kind, parts) ==
    IF result = <<>> THEN <<>>
    ELSE (IF Head(result).k = kind /\ Head(result).i < Len(parts)
               /\ parts[Head(result).i + 1] # <<>>
          THEN parts[Head(result).i + 1]
          ELSE <<Head(result)>>)
         \o RestoreKind(Tail(result), kind, parts)

\* restorePreservableContent(text, blocks): code blocks, then inline code, then HTML blocks
restorePreservableContent(text, blocks) ==
    RestoreKind(RestoreKind(RestoreKind(text, "code", blocks.codeBlocks),
                            "inline", blocks.preservedRegions),
                "placeholder", blocks.htmlBlocks)

Segments ==
    {<<Plain("a")>>, <<Tick>>, <<Tick, Tick, Tick>>, <<LineBreak>>, <<OpenTag("div")>>,
     <<CloseTag("div")>>}
RECURSIVE SegmentTexts(_)
SegmentTexts(n) ==
    IF n = 0 THEN {<<>>}
    ELSE SegmentTexts(n - 1) \cup {t \o seg : t \in SegmentTexts(n - 1), seg \in Segments}

NoBlocks == [codeBlocks |-> <<>>, preservedRegions |-> <<>>, htmlBlocks |-> <<>>]

\* No message is shown; a caller is about to preserve the content of a text
InitPreserve ==
    /\ variant = "p000"
    /\ now = 0
    /\ chat = [m \in Msgs |-> NoMsg]
    /\ dom = [m \in Msgs |-> Absent]
    /\ ctxs = <<>>
    /\ inbox = <<>>
    /\ emberMaxHeights = <<>>
    /\ passes = [p \in PassIds |-> IdlePass]
    /\ cpu = 0
    /\ timers = [m \in Msgs |-> 0]
    /\ heals = <<>>
    /\ nextId = 1
    /\ hist = NoHist
    /\ emberSettings = DefaultSettings
    /\ \E text \in SegmentTexts(MaxSegments) :
          html = [pc |-> "called", text |-> text, result |-> <<>>, blocks |-> NoBlocks,
                  restored |-> <<>>]

\* const { processedText, blocks } = extractPreservableContent(text) returns
extractPreservableContent_call ==
    /\ html.pc = "called"
    /\ LET r == extractPreservableContent(html.text)
       IN  html' = [html EXCEPT !.pc = "extracted", !.result = r.processedText,
                                !.blocks = r.blocks]
    /\ UNCHANGED <<emberSettings, variant, now, chat, dom, ctxs, inbox, emberMaxHeights,
                   passes, cpu, timers, heals, nextId, hist>>

\* restorePreservableContent(processedText, blocks) returns
restorePreservableContent_call ==
    /\ html.pc = "extracted"
    /\ html' = [html EXCEPT !.pc = "restored",
                            !.restored = restorePreservableContent(html.result, html.blocks)]
    /\ UNCHANGED <<emberSettings, variant, now, chat, dom, ctxs, inbox, emberMaxHeights,
                   passes, cpu, timers, heals, nextId, hist>>

NextPreserve == extractPreservableContent_call \/ restorePreservableContent_call

SpecPreserve == InitPreserve /\ [][NextPreserve]_vars

\* A stored block holds the placeholder of another block
HoldsPlaceholder(block) ==
    \E j \in 1..Len(block) : block[j].k \in {"code", "inline", "placeholder"}
NestedBlocks(blocks) ==
    \/ \E i \in 1..Len(blocks.codeBlocks) : HoldsPlaceholder(blocks.codeBlocks[i])
    \/ \E i \in 1..Len(blocks.preservedRegions) : HoldsPlaceholder(blocks.preservedRegions[i])
    \/ \E i \in 1..Len(blocks.htmlBlocks) : HoldsPlaceholder(blocks.htmlBlocks[i])

\* C38: for every text t, restorePreservableContent(extractPreservableContent(t)
\* .processedText, extractPreservableContent(t).blocks) equals t, also when a fenced or
\* an inline code block lies inside an HTML element.
C38_PreserveRoundTrip ==
    html.pc = "restored" => html.restored = html.text

\* What holds: the same when no stored block holds the placeholder of another block
C38_FlatRoundTrip ==
    (html.pc = "restored" /\ ~NestedBlocks(html.blocks)) => html.restored = html.text

====
